---- MODULE Spec2Model ----
(***************************************************************************)
(* A model of the injection engine of sc-ast-injector                      *)
(* (src/vuln_injector): the splicing routine BaseInjector._apply_payloads, *)
(* the provenance record InjectionMetadata, and the operations built on    *)
(* them.                                                                   *)
(*                                                                         *)
(* Buffers are sequences of atoms: a byte of a source file is a one-        *)
(* character string, and a fragment contributes its pieces (see Texts).    *)
(***************************************************************************)
EXTENDS Integers, Sequences, FiniteSets, TLC

VARIABLES
    pc,                \* position of the running operation
    mode,              \* "point" (PointInjector) or "coupled" (CoupledInjector)
    content,           \* BaseInjector._content: the cached source buffer
    ast,               \* BaseInjector.ast: the tree
    solidity_version,  \* BaseInjector.solidity_version
    randomize,         \* BaseInjector.randomize
    args,              \* the arguments of the inject call
    payloads,          \* the List[InjectionPayload] handed to _apply_payloads
    metadata,          \* BaseInjector.metadata: None or an InjectionMetadata
    modified_content,  \* the buffer returned by _apply_payloads
    selected_template, \* the template selected by inject
    selected_location, \* the location selected by inject
    existing_identifiers, \* the identifiers handed to generate_var_names
    generated_names,   \* the dict returned by generate_var_names
    output_file,       \* the bytes of the file at output_path, None if absent
    metadata_file,     \* the record in the .json sidecar, None if absent
    events,            \* the calls made by inject so far, in order
    result,            \* None while inject runs, then "True", "False" or "Raised"
    reason,            \* the message printed with a False result
    history,           \* the earlier inject calls of this injector object
    found,             \* the discovery calls made on the tree, with their results
    attempts,          \* the injection attempts that run side by side, each with its own injector
    fs,                \* the files the attempts share: path to file
    fragments          \* the fragment texts a payload generator returned

vars ==
    <<pc, mode, content, ast, solidity_version, randomize, args, payloads, metadata,
      modified_content, selected_template, selected_location, existing_identifiers,
      generated_names, output_file, metadata_file, events, result, reason, history, found,
      attempts, fs, fragments>>

\* Python's None, for a string, a buffer and a metadata object
None == "None"
NoBytes == <<"None">>
NoMetadata == [is_none |-> TRUE]

(***************************************************************************)
(* Bounds of the model.                                                    *)
(***************************************************************************)
MaxLen == 2          \* longest source buffer drawn
MaxPayloads == 3     \* longest payload list drawn

\* The source buffers drawn: _apply_payloads never reads a byte's value, so a
\* buffer whose bytes all differ stands for every buffer of its length, and
\* shows any byte that is dropped, altered or moved.
SourceText == <<"a", "b", "c", "d", "e", "f">>
SourceBuffers == {SubSeq(SourceText, 1, L) : L \in 0..MaxLen}

\* the fragment byte strings a payload is drawn from (lengths 0, 1 and 2)
PayloadContents == {<<>>, <<"x">>, <<"y", "z">>}

\* component labels, by position in the drawn list
ComponentNames == <<"state", "setter", "executor", "vulnerable_code">>

Min(a, b) == IF a < b THEN a ELSE b
Max(a, b) == IF a > b THEN a ELSE b

(***************************************************************************)
(* Python slicing of a bytes object: s[:i] and s[i:].  A negative index    *)
(* counts from the end, and an index outside the buffer is clamped.        *)
(***************************************************************************)
SliceIndex(s, i) == IF i < 0 THEN Max(0, Len(s) + i) ELSE Min(i, Len(s))

SliceTo(s, i) == SubSeq(s, 1, SliceIndex(s, i))

SliceFrom(s, i) == SubSeq(s, SliceIndex(s, i) + 1, Len(s))

\* s[i:j] for 0 <= i, as find_brace_offset and the region readers use it
Slice(s, i, j) == SubSeq(s, SliceIndex(s, i) + 1, SliceIndex(s, j))

(***************************************************************************)
(* models.py: InjectionPayload and InjectionMetadata.add_region            *)
(***************************************************************************)
InjectionPayload(offset, bytes, component_name) ==
    [offset |-> offset, content |-> bytes, component_name |-> component_name]

Region(start_byte, end_byte, component) ==
    [start_byte |-> start_byte, end_byte |-> end_byte, component |-> component,
     description |-> <<"Injected", component, "code">>]

add_region(md, start_byte, end_byte, component) ==
    [md EXCEPT !.injected_regions =
        Append(@, Region(start_byte, end_byte, component))]

(***************************************************************************)
(* sorted(payloads, key=lambda p: p.offset, reverse=True): a stable sort,  *)
(* payloads of equal offset keep their input order.                        *)
(***************************************************************************)
\* a variant that puts p before the payloads of its own offset
InsertBeforeEqualOffsets(s, p) ==
    LET k == Cardinality({i \in 1..Len(s) : s[i].offset > p.offset})
    IN SubSeq(s, 1, k) \o <<p>> \o SubSeq(s, k + 1, Len(s))

RECURSIVE InsertByOffsetDesc(_, _)
InsertByOffsetDesc(s, p) ==
    IF s = <<>> THEN <<p>>
    ELSE IF Head(s).offset >= p.offset
         THEN <<Head(s)>> \o InsertByOffsetDesc(Tail(s), p)
         ELSE <<p>> \o s

\* a variant that applies the payloads in input order (no sort)
SortedKeepInputOrder(ps) == ps

RECURSIVE sorted_payloads(_)
sorted_payloads(ps) ==
    IF ps = <<>> THEN <<>>
    ELSE InsertByOffsetDesc(sorted_payloads(SubSeq(ps, 1, Len(ps) - 1)), ps[Len(ps)])

\* sum(len(p.content) for p in ps)
RECURSIVE SumContentLen(_)
SumContentLen(ps) ==
    IF ps = <<>> THEN 0 ELSE Len(Head(ps).content) + SumContentLen(Tail(ps))

\* a variant that sums the payloads already applied, sorted[:i]
bytes_added_before(sorted, i) == SumContentLen(SubSeq(sorted, 1, i - 1))

\* bytes_added_after at iteration i (1-based): the lengths of sorted[i+1:]
bytes_added_after(sorted, i) == SumContentLen(SubSeq(sorted, i + 1, Len(sorted)))

\* a variant that overwrites instead of inserting
SpliceOverwrite(buf, p) ==
    SliceTo(buf, p.offset) \o p.content \o SliceFrom(buf, p.offset + Len(p.content))

\* the splice of one payload: content[:offset] + payload.content + content[offset:]
SpliceOne(buf, p) == SliceTo(buf, p.offset) \o p.content \o SliceFrom(buf, p.offset)

(***************************************************************************)
(* The loop of _apply_payloads from iteration i on; st is the pair of the  *)
(* local buffer and self.metadata.                                         *)
(***************************************************************************)
RECURSIVE ApplyLoop(_, _, _)
ApplyLoop(sorted, i, st) ==
    IF i > Len(sorted) THEN st
    ELSE LET payload == sorted[i]
             final_start == payload.offset + bytes_added_after(sorted, i)
             final_end == final_start + Len(payload.content)
         IN ApplyLoop(sorted, i + 1,
                [content |-> SpliceOne(st.content, payload),
                 metadata |-> IF st.metadata # NoMetadata
                              THEN add_region(st.metadata, final_start, final_end,
                                              payload.component_name)
                              ELSE st.metadata])

\* _apply_payloads(payloads) on source buffer buf with self.metadata = md
apply_payloads(buf, ps, md) ==
    ApplyLoop(sorted_payloads(ps), 1, [content |-> buf, metadata |-> md])


\* a variant that carries the regions of the injector's present record over
InjectionMetadataKeepingRegions(src_path, out_path, vtype, inj_mode, tmpl_name, version) ==
    [source_contract |-> src_path, output_contract |-> out_path,
     vulnerability_type |-> vtype, injection_mode |-> inj_mode,
     template_name |-> tmpl_name, solidity_version |-> version,
     injected_regions |-> IF metadata = NoMetadata THEN <<>> ELSE metadata.injected_regions]

InjectionMetadata(src_path, out_path, vtype, inj_mode, tmpl_name, version) ==
    [source_contract |-> src_path, output_contract |-> out_path,
     vulnerability_type |-> vtype, injection_mode |-> inj_mode,
     template_name |-> tmpl_name, solidity_version |-> version,
     injected_regions |-> <<>>]

(***************************************************************************)
(* Texts.  A fragment text is a sequence of pieces: "{", "}" and "\n" are  *)
(* pieces of their own and a run of other characters is one piece, so that *)
(* a placeholder {x} is the three pieces "{", "x", "}".  A version string, *)
(* a source range and a type name are sequences of characters.             *)
(***************************************************************************)
NoText == <<"None">>

RECURSIVE Concat(_)
Concat(seqs) == IF seqs = <<>> THEN <<>> ELSE Head(seqs) \o Concat(Tail(seqs))

Range(s) == {s[i] : i \in 1..Len(s)}

\* Python truthiness of an optional string and of an optional text
Truthy(s) == s # None /\ s # ""
TruthyText(t) == t # NoText /\ t # <<>>

\* does pat occur in s at position i (1-based)
IsPrefixAt(s, pat, i) ==
    i + Len(pat) - 1 <= Len(s) /\ SubSeq(s, i, i + Len(pat) - 1) = pat

\* str.replace(pat, rep): every non-overlapping occurrence, left to right
RECURSIVE ReplaceFrom(_, _, _, _)
ReplaceFrom(s, pat, rep, i) ==
    IF i > Len(s) THEN <<>>
    ELSE IF IsPrefixAt(s, pat, i)
         THEN rep \o ReplaceFrom(s, pat, rep, i + Len(pat))
         ELSE <<s[i]>> \o ReplaceFrom(s, pat, rep, i + 1)

replace(s, pat, rep) == ReplaceFrom(s, pat, rep, 1)

\* pat in s
Contains(s, pat) == \E i \in 1..(Len(s) + 1) : IsPrefixAt(s, pat, i)

\* s.startswith(pat)
startswith(s, pat) == IsPrefixAt(s, pat, 1)

\* "{" + placeholder + "}"
Placeholder(name) == <<"{", name, "}">>

\* the loop over var_names.items(): a dict is the sequence of its
\* <<placeholder, name>> pairs in insertion order
RECURSIVE ReplaceVars(_, _)
ReplaceVars(text, var_names) ==
    IF var_names = <<>> THEN text
    ELSE ReplaceVars(replace(text, Placeholder(Head(var_names)[1]), <<Head(var_names)[2]>>),
                     Tail(var_names))

\* templates/point_injection.py: apply_var_names
apply_var_names(template_str, var_names, input_param, indent) ==
    IF template_str = NoText THEN NoText
    ELSE LET r1 == ReplaceVars(template_str, var_names)
             r2 == IF Truthy(input_param)
                   THEN replace(r1, Placeholder("input_param"), <<input_param>>)
                   ELSE r1
         IN replace(r2, Placeholder("indent"), indent)

\* templates/coupled_injection.py: apply_var_names
coupled_apply_var_names(template_str, var_names, input_param, indent) ==
    IF template_str = NoText THEN NoText
    ELSE LET r1 == ReplaceVars(template_str, var_names)
             r2 == IF Truthy(input_param)
                   THEN replace(r1, Placeholder("input_param"), <<input_param>>)
                   ELSE r1
         IN replace(r2, Placeholder("indent"), indent)

\* the default of apply_var_names' indent parameter: four spaces
DefaultIndent == <<" ", " ", " ", " ">>

(***************************************************************************)
(* str.format with keyword arguments.  "{{" and "}}" give one brace,       *)
(* "{name}" with name among the arguments gives its value, any other       *)
(* brace raises (KeyError, IndexError or ValueError).  kwargs maps a name  *)
(* to the sequence of pieces of its value.                                 *)
(***************************************************************************)
RECURSIVE FormatFrom(_, _, _, _)
FormatFrom(text, kwargs, i, acc) ==
    IF i > Len(text) THEN [raised |-> FALSE, text |-> acc]
    ELSE IF text[i] = "{"
         THEN IF i + 1 <= Len(text) /\ text[i + 1] = "{"
              THEN FormatFrom(text, kwargs, i + 2, Append(acc, "{"))
              ELSE IF /\ i + 2 <= Len(text)
                      /\ text[i + 1] \in DOMAIN kwargs
                      /\ text[i + 2] = "}"
                   THEN FormatFrom(text, kwargs, i + 3, acc \o kwargs[text[i + 1]])
                   ELSE [raised |-> TRUE, text |-> <<>>]
         ELSE IF text[i] = "}"
              THEN IF i + 1 <= Len(text) /\ text[i + 1] = "}"
                   THEN FormatFrom(text, kwargs, i + 2, Append(acc, "}"))
                   ELSE [raised |-> TRUE, text |-> <<>>]
              ELSE FormatFrom(text, kwargs, i + 1, Append(acc, text[i]))

format(text, kwargs) == FormatFrom(text, kwargs, 1, <<>>)

(***************************************************************************)
(* utils.py: is_version_compatible.                                        *)
(***************************************************************************)
Digits == <<"0", "1", "2", "3", "4", "5", "6", "7", "8", "9">>

\* str.isdigit() of one character, and its value
IsDigitChar(c) == \E d \in 1..Len(Digits) : Digits[d] = c
DigitValue(c) == (CHOOSE d \in 1..Len(Digits) : Digits[d] = c) - 1

\* str.isdigit(): non-empty and all digits
isdigit(p) == p # <<>> /\ \A k \in 1..Len(p) : IsDigitChar(p[k])

\* int(p) of a string of digits
RECURSIVE IntOfDigits(_)
IntOfDigits(p) ==
    IF p = <<>> THEN 0
    ELSE 10 * IntOfDigits(SubSeq(p, 1, Len(p) - 1)) + DigitValue(p[Len(p)])

IsSpaceChar(c) == c \in {" ", "\t", "\n", "\r"}

\* str.strip()
RECURSIVE lstrip(_)
lstrip(s) == IF s # <<>> /\ IsSpaceChar(Head(s)) THEN lstrip(Tail(s)) ELSE s

RECURSIVE rstrip(_)
rstrip(s) ==
    IF s # <<>> /\ IsSpaceChar(s[Len(s)]) THEN rstrip(SubSeq(s, 1, Len(s) - 1)) ELSE s

strip(s) == rstrip(lstrip(s))

\* str.split(sep) for a one-character separator
RECURSIVE SplitFrom(_, _, _, _)
SplitFrom(s, sep, i, cur) ==
    IF i > Len(s) THEN <<cur>>
    ELSE IF s[i] = sep
         THEN <<cur>> \o SplitFrom(s, sep, i + 1, <<>>)
         ELSE SplitFrom(s, sep, i + 1, Append(cur, s[i]))

split(s, sep) == SplitFrom(s, sep, 1, <<>>)

\* tuple(int(p) for p in parts if p.isdigit())
RECURSIVE IntsOfDigitParts(_)
IntsOfDigitParts(parts) ==
    IF parts = <<>> THEN <<>>
    ELSE (IF isdigit(Head(parts)) THEN <<IntOfDigits(Head(parts))>> ELSE <<>>)
         \o IntsOfDigitParts(Tail(parts))

parse_version(v) ==
    LET v1 == replace(v, <<"^">>, <<>>)
        v2 == replace(v1, <<">", "=">>, <<>>)
        v3 == replace(v2, <<">">>, <<>>)
        v4 == strip(replace(v3, <<"<">>, <<>>))
        parts == SliceTo(split(v4, "."), 3)
    IN IntsOfDigitParts(parts)

\* Python's order on tuples of integers
RECURSIVE TupleLess(_, _)
TupleLess(a, b) ==
    IF b = <<>> THEN FALSE
    ELSE IF a = <<>> THEN TRUE
    ELSE IF Head(a) # Head(b) THEN Head(a) < Head(b)
    ELSE TupleLess(Tail(a), Tail(b))

TupleLE(a, b) == a = b \/ TupleLess(a, b)

\* a variant that tests the lower end of the interval only
AtLeastMinVersion(version, min_version, max_version) ==
    TupleLE(parse_version(min_version), parse_version(version))

\* utils.py: is_version_compatible for strings int() accepts
is_version_compatible(version, min_version, max_version) ==
    LET ver == parse_version(version)
        min_v == parse_version(min_version)
        max_v == parse_version(max_version)
    IN TupleLE(min_v, ver) /\ TupleLE(ver, max_v)

(***************************************************************************)
(* utils.py: parse_src_location, find_brace_offset, detect_indentation.    *)
(***************************************************************************)
\* int(p): an optional sign and digits; anything else raises ValueError
ParseInt(p) ==
    LET q == strip(p)
        signed == q # <<>> /\ Head(q) \in {"-", "+"}
        digits == IF signed THEN Tail(q) ELSE q
    IN IF ~isdigit(digits) THEN [raised |-> TRUE, value |-> 0]
       ELSE [raised |-> FALSE,
             value |-> IF signed /\ Head(q) = "-" THEN 0 - IntOfDigits(digits)
                       ELSE IntOfDigits(digits)]

\* parse_src_location: raises IndexError for fewer than three parts and
\* ValueError for a part that is not an integer
parse_src_location(src) ==
    LET parts == split(src, ":")
    IN IF Len(parts) < 3 \/ \E k \in 1..3 : ParseInt(parts[k]).raised
       THEN [raised |-> TRUE, start |-> 0, length |-> 0]
       ELSE [raised |-> FALSE, start |-> ParseInt(parts[1]).value,
             length |-> ParseInt(parts[2]).value]

\* bytes.find(b'{'): the 0-based index of the first "{", or -1
RECURSIVE FindFrom(_, _, _)
FindFrom(s, c, i) ==
    IF i > Len(s) THEN -1
    ELSE IF s[i] = c THEN i - 1
    ELSE FindFrom(s, c, i + 1)

\* s[i:i+n] with Python's rule that a slice which ends before it starts is empty
find_brace_offset(buf, start_offset, length) ==
    LET search_range == Slice(buf, start_offset, start_offset + length)
        brace_pos == FindFrom(search_range, "{", 1)
    IN IF brace_pos = -1 THEN -1 ELSE start_offset + brace_pos + 1

\* the first while loop of detect_indentation: advance to the next newline
RECURSIVE SkipToNewline(_, _)
SkipToNewline(buf, i) ==
    IF i < Len(buf) /\ Slice(buf, i, i + 1) # <<"\n">>
    THEN SkipToNewline(buf, i + 1)
    ELSE i

\* bytes.strip(): ASCII whitespace
IsByteSpace(c) == c \in {" ", "\t", "\n", "\r", "\f"}

RECURSIVE BytesLStrip(_)
BytesLStrip(s) == IF s # <<>> /\ IsByteSpace(Head(s)) THEN BytesLStrip(Tail(s)) ELSE s

RECURSIVE BytesRStrip(_)
BytesRStrip(s) ==
    IF s # <<>> /\ IsByteSpace(s[Len(s)]) THEN BytesRStrip(SubSeq(s, 1, Len(s) - 1)) ELSE s

\* the leading run of spaces and tabs of a line
RECURSIVE LeadingIndent(_)
LeadingIndent(line) ==
    IF line # <<>> /\ Head(line) \in {" ", "\t"}
    THEN <<Head(line)>> \o LeadingIndent(Tail(line))
    ELSE <<>>

\* the default of detect_indentation: two spaces
DefaultDetected == <<" ", " ">>

\* the second while loop of detect_indentation
RECURSIVE ScanLines(_, _, _)
ScanLines(buf, next_line_start, in_multiline_comment) ==
    IF ~(next_line_start < Len(buf)) THEN DefaultDetected
    ELSE LET line_end == SkipToNewline(buf, next_line_start)
             line == Slice(buf, next_line_start, line_end)
             stripped == BytesRStrip(BytesLStrip(line))
             opened == in_multiline_comment \/ Contains(stripped, <<"/", "*">>)
         IN IF Contains(stripped, <<"*", "/">>)
            THEN ScanLines(buf, line_end + 1, FALSE)
            ELSE IF /\ stripped # <<>>
                    /\ ~opened
                    /\ ~startswith(stripped, <<"/", "/">>)
                    /\ ~startswith(stripped, <<"/", "*">>)
                    /\ ~startswith(stripped, <<"*">>)
                    /\ LeadingIndent(line) # <<>>
                 THEN LeadingIndent(line)
                 ELSE ScanLines(buf, line_end + 1, opened)

detect_indentation(buf, offset) == ScanLines(buf, SkipToNewline(buf, offset) + 1, FALSE)

(***************************************************************************)
(* The template registries (templates/point_injection.py, reentrancy.py,   *)
(* coupled_injection.py), fragment texts as sequences of pieces.  A text   *)
(* the dict does not have, or has as None, is NoText.                      *)
(***************************************************************************)
\* templates/point_injection.py: OVERFLOW_TEMPLATES
OVERFLOW_TEMPLATES ==
    <<
     [name |-> "addition_overflow", vuln_type |-> <<"O", "V", "E", "R", "F", "L", "O", "W">>,
      min_version |-> <<"0", ".", "4", ".", "0">>,
      max_version |-> <<"0", ".", "7", ".", "9", "9">>, injection_type |-> "point",
      var_types |-> <<"mapping">>, needs_addr_param |-> FALSE, needs_uint_param |-> TRUE,
      needs_state_modifying |-> FALSE, requires_payable_executor |-> FALSE,
      needs_payable_setter |-> FALSE, setter_needs_args |-> FALSE,
      state |-> <<"mapping(address => uint256) ", "{", "var_mapping", "}", ";", "\n", "{", "indent", "}", "function set_", "{", "var_mapping", "}", "(uint256 _val) public ", "{", "\n", "{", "indent", "}", "    ", "{", "var_mapping", "}", "[msg.sender] = _val;", "\n", "{", "indent", "}", "}">>,
      code |-> <<"{", "var_mapping", "}", "[msg.sender] = ", "{", "var_mapping", "}", "[msg.sender] + ", "{", "uint_param", "}", ";">>,
      setter |-> NoText, setter_condition |-> NoText, executor |-> NoText],
     [name |-> "addition_overflow_input", vuln_type |-> <<"O", "V", "E", "R", "F", "L", "O", "W">>,
      min_version |-> <<"0", ".", "4", ".", "0">>,
      max_version |-> <<"0", ".", "7", ".", "9", "9">>, injection_type |-> "point",
      var_types |-> <<"uint">>, needs_addr_param |-> FALSE, needs_uint_param |-> FALSE,
      needs_state_modifying |-> FALSE, requires_payable_executor |-> FALSE,
      needs_payable_setter |-> FALSE, setter_needs_args |-> FALSE,
      state |-> <<"uint256 ", "{", "var_uint", "}", ";">>,
      code |-> <<"{", "var_uint", "}", " = ", "{", "var_uint", "}", " + 1;">>, setter |-> NoText,
      setter_condition |-> NoText, executor |-> NoText],
     [name |-> "subtraction_underflow",
      vuln_type |-> <<"U", "N", "D", "E", "R", "F", "L", "O", "W">>,
      min_version |-> <<"0", ".", "4", ".", "0">>,
      max_version |-> <<"0", ".", "7", ".", "9", "9">>, injection_type |-> "point",
      var_types |-> <<"mapping">>, needs_addr_param |-> FALSE, needs_uint_param |-> TRUE,
      needs_state_modifying |-> FALSE, requires_payable_executor |-> FALSE,
      needs_payable_setter |-> FALSE, setter_needs_args |-> FALSE,
      state |-> <<"mapping(address => uint256) ", "{", "var_mapping", "}", ";", "\n", "{", "indent", "}", "function set_", "{", "var_mapping", "}", "(uint256 _val) public ", "{", "\n", "{", "indent", "}", "    ", "{", "var_mapping", "}", "[msg.sender] = _val;", "\n", "{", "indent", "}", "}">>,
      code |-> <<"{", "var_mapping", "}", "[msg.sender] = ", "{", "var_mapping", "}", "[msg.sender] - ", "{", "uint_param", "}", ";">>,
      setter |-> NoText, setter_condition |-> NoText, executor |-> NoText],
     [name |-> "multiplication_overflow", vuln_type |-> <<"O", "V", "E", "R", "F", "L", "O", "W">>,
      min_version |-> <<"0", ".", "4", ".", "0">>,
      max_version |-> <<"0", ".", "7", ".", "9", "9">>, injection_type |-> "point",
      var_types |-> <<"mapping">>, needs_addr_param |-> FALSE, needs_uint_param |-> TRUE,
      needs_state_modifying |-> FALSE, requires_payable_executor |-> FALSE,
      needs_payable_setter |-> FALSE, setter_needs_args |-> FALSE,
      state |-> <<"mapping(address => uint256) ", "{", "var_mapping", "}", ";", "\n", "{", "indent", "}", "function set_", "{", "var_mapping", "}", "(uint256 _val) public ", "{", "\n", "{", "indent", "}", "    ", "{", "var_mapping", "}", "[msg.sender] = _val;", "\n", "{", "indent", "}", "}">>,
      code |-> <<"{", "var_mapping", "}", "[msg.sender] = ", "{", "var_mapping", "}", "[msg.sender] * ", "{", "uint_param", "}", ";">>,
      setter |-> NoText, setter_condition |-> NoText, executor |-> NoText],
     [name |-> "uint8_overflow", vuln_type |-> <<"O", "V", "E", "R", "F", "L", "O", "W">>,
      min_version |-> <<"0", ".", "4", ".", "0">>,
      max_version |-> <<"0", ".", "7", ".", "9", "9">>, injection_type |-> "point",
      var_types |-> <<"uint">>, needs_addr_param |-> FALSE, needs_uint_param |-> FALSE,
      needs_state_modifying |-> FALSE, requires_payable_executor |-> FALSE,
      needs_payable_setter |-> FALSE, setter_needs_args |-> FALSE,
      state |-> <<"uint8 ", "{", "var_uint", "}", " = 255;">>,
      code |-> <<"{", "var_uint", "}", " = ", "{", "var_uint", "}", " + 1;">>, setter |-> NoText,
      setter_condition |-> NoText, executor |-> NoText],
     [name |-> "transfer_underflow", vuln_type |-> <<"U", "N", "D", "E", "R", "F", "L", "O", "W">>,
      min_version |-> <<"0", ".", "4", ".", "0">>,
      max_version |-> <<"0", ".", "7", ".", "9", "9">>, injection_type |-> "point",
      var_types |-> <<"mapping">>, needs_addr_param |-> FALSE, needs_uint_param |-> TRUE,
      needs_state_modifying |-> FALSE, requires_payable_executor |-> FALSE,
      needs_payable_setter |-> FALSE, setter_needs_args |-> FALSE,
      state |-> <<"mapping(address => uint256) ", "{", "var_mapping", "}", ";", "\n", "{", "indent", "}", "function deposit_", "{", "var_mapping", "}", "() public payable ", "{", "\n", "{", "indent", "}", "    ", "{", "var_mapping", "}", "[msg.sender] += msg.value;", "\n", "{", "indent", "}", "}">>,
      code |-> <<"{", "var_mapping", "}", "[msg.sender] = ", "{", "var_mapping", "}", "[msg.sender] - ", "{", "uint_param", "}", ";">>,
      setter |-> NoText, setter_condition |-> NoText, executor |-> NoText]
    >>

\* templates/point_injection.py: BATCH_TRANSFER_OVERFLOW
BATCH_TRANSFER_OVERFLOW ==
    <<
     [name |-> "batch_transfer_overflow", vuln_type |-> <<"O", "V", "E", "R", "F", "L", "O", "W">>,
      min_version |-> <<"0", ".", "4", ".", "0">>,
      max_version |-> <<"0", ".", "7", ".", "9", "9">>, injection_type |-> "point",
      var_types |-> <<"mapping">>, needs_addr_param |-> FALSE, needs_uint_param |-> FALSE,
      needs_state_modifying |-> FALSE, requires_payable_executor |-> FALSE,
      needs_payable_setter |-> FALSE, setter_needs_args |-> FALSE,
      state |-> <<"mapping(address => uint256) ", "{", "var_mapping", "}", ";">>,
      code |-> <<"function batchTransfer_", "{", "var_mapping", "}", "(address[] memory _receivers, uint256 _value) public ", "{", "\n", "{", "indent", "}", "    uint cnt = _receivers.length;", "\n", "{", "indent", "}", "    uint256 amount = uint256(cnt) * _value;", "\n", "{", "indent", "}", "    require(cnt > 0 && cnt <= 20);", "\n", "{", "indent", "}", "    require(_value > 0 && ", "{", "var_mapping", "}", "[msg.sender] >= amount);", "\n", "{", "indent", "}", "    ", "{", "var_mapping", "}", "[msg.sender] -= amount;", "\n", "{", "indent", "}", "    for (uint i = 0; i < cnt; i++) ", "{", "\n", "{", "indent", "}", "        ", "{", "var_mapping", "}", "[_receivers[i]] += _value;", "\n", "{", "indent", "}", "    ", "}", "\n", "{", "indent", "}", "}">>,
      setter |-> NoText, setter_condition |-> NoText, executor |-> NoText],
     [name |-> "safemath_present_not_used",
      vuln_type |-> <<"O", "V", "E", "R", "F", "L", "O", "W">>,
      min_version |-> <<"0", ".", "4", ".", "0">>,
      max_version |-> <<"0", ".", "7", ".", "9", "9">>, injection_type |-> "point",
      var_types |-> <<"mapping">>, needs_addr_param |-> FALSE, needs_uint_param |-> TRUE,
      needs_state_modifying |-> FALSE, requires_payable_executor |-> FALSE,
      needs_payable_setter |-> FALSE, setter_needs_args |-> FALSE,
      state |-> <<"library SafeMath ", "{", "\n", "{", "indent", "}", "    function add(uint256 a, uint256 b) internal pure returns (uint256) ", "{", "\n", "{", "indent", "}", "        uint256 c = a + b;", "\n", "{", "indent", "}", "        require(c >= a);", "\n", "{", "indent", "}", "        return c;", "\n", "{", "indent", "}", "    ", "}", "\n", "{", "indent", "}", "}", "\n", "{", "indent", "}", "mapping(address => uint256) ", "{", "var_mapping", "}", ";", "\n", "{", "indent", "}", "using SafeMath for uint256;  // DECLARED but NOT USED!">>,
      code |-> <<"{", "var_mapping", "}", "[msg.sender] = ", "{", "var_mapping", "}", "[msg.sender] + ", "{", "uint_param", "}", ";  // NOT using .add()!">>,
      setter |-> NoText, setter_condition |-> NoText, executor |-> NoText]
    >>

\* templates/point_injection.py: TX_ORIGIN_TEMPLATES
TX_ORIGIN_TEMPLATES ==
    <<
     [name |-> "tx_origin_auth", vuln_type |-> <<"T", "X", "_", "O", "R", "I", "G", "I", "N">>,
      min_version |-> <<"0", ".", "4", ".", "0">>,
      max_version |-> <<"0", ".", "9", ".", "9", "9">>, injection_type |-> "point",
      var_types |-> <<"addr">>, needs_addr_param |-> FALSE, needs_uint_param |-> FALSE,
      needs_state_modifying |-> FALSE, requires_payable_executor |-> FALSE,
      needs_payable_setter |-> FALSE, setter_needs_args |-> FALSE,
      state |-> <<"address ", "{", "var_addr", "}", ";">>,
      code |-> <<"require(tx.origin == ", "{", "var_addr", "}", ");">>, setter |-> NoText,
      setter_condition |-> NoText, executor |-> NoText],
     [name |-> "tx_origin_transfer", vuln_type |-> <<"T", "X", "_", "O", "R", "I", "G", "I", "N">>,
      min_version |-> <<"0", ".", "4", ".", "0">>,
      max_version |-> <<"0", ".", "4", ".", "9", "9">>, injection_type |-> "point",
      var_types |-> <<"addr">>, needs_addr_param |-> FALSE, needs_uint_param |-> FALSE,
      needs_state_modifying |-> FALSE, requires_payable_executor |-> FALSE,
      needs_payable_setter |-> FALSE, setter_needs_args |-> FALSE,
      state |-> <<"address ", "{", "var_addr", "}", ";">>,
      code |-> <<"require(tx.origin == ", "{", "var_addr", "}", ");", "\n", "{", "indent", "}", "msg.sender.transfer(address(this).balance);">>,
      setter |-> NoText, setter_condition |-> NoText, executor |-> NoText],
     [name |-> "tx_origin_transfer_050",
      vuln_type |-> <<"T", "X", "_", "O", "R", "I", "G", "I", "N">>,
      min_version |-> <<"0", ".", "5", ".", "0">>,
      max_version |-> <<"0", ".", "5", ".", "9", "9">>, injection_type |-> "point",
      var_types |-> <<"addr">>, needs_addr_param |-> FALSE, needs_uint_param |-> FALSE,
      needs_state_modifying |-> FALSE, requires_payable_executor |-> FALSE,
      needs_payable_setter |-> FALSE, setter_needs_args |-> FALSE,
      state |-> <<"address ", "{", "var_addr", "}", ";">>,
      code |-> <<"require(tx.origin == ", "{", "var_addr", "}", ");", "\n", "{", "indent", "}", "msg.sender.transfer(address(this).balance);">>,
      setter |-> NoText, setter_condition |-> NoText, executor |-> NoText],
     [name |-> "tx_origin_transfer_060",
      vuln_type |-> <<"T", "X", "_", "O", "R", "I", "G", "I", "N">>,
      min_version |-> <<"0", ".", "6", ".", "0">>,
      max_version |-> <<"0", ".", "9", ".", "9", "9">>, injection_type |-> "point",
      var_types |-> <<"addr">>, needs_addr_param |-> FALSE, needs_uint_param |-> FALSE,
      needs_state_modifying |-> FALSE, requires_payable_executor |-> FALSE,
      needs_payable_setter |-> FALSE, setter_needs_args |-> FALSE,
      state |-> <<"address ", "{", "var_addr", "}", ";">>,
      code |-> <<"require(tx.origin == ", "{", "var_addr", "}", ");", "\n", "{", "indent", "}", "payable(msg.sender).transfer(address(this).balance);">>,
      setter |-> NoText, setter_condition |-> NoText, executor |-> NoText],
     [name |-> "tx_origin_with_param",
      vuln_type |-> <<"T", "X", "_", "O", "R", "I", "G", "I", "N">>,
      min_version |-> <<"0", ".", "4", ".", "0">>,
      max_version |-> <<"0", ".", "9", ".", "9", "9">>, injection_type |-> "point",
      var_types |-> <<>>, needs_addr_param |-> TRUE, needs_uint_param |-> FALSE,
      needs_state_modifying |-> FALSE, requires_payable_executor |-> FALSE,
      needs_payable_setter |-> FALSE, setter_needs_args |-> FALSE, state |-> NoText,
      code |-> <<"require(tx.origin == ", "{", "input_param", "}", ");">>, setter |-> NoText,
      setter_condition |-> NoText, executor |-> NoText]
    >>

\* templates/point_injection.py: UNCHECKED_SEND_TEMPLATES
UNCHECKED_SEND_TEMPLATES ==
    <<
     [name |-> "unchecked_send_literal_legacy",
      vuln_type |-> <<"U", "N", "C", "H", "E", "C", "K", "E", "D", "_", "S", "E", "N", "D">>,
      min_version |-> <<"0", ".", "4", ".", "0">>,
      max_version |-> <<"0", ".", "5", ".", "9", "9">>, injection_type |-> "point",
      var_types |-> <<>>, needs_addr_param |-> FALSE, needs_uint_param |-> FALSE,
      needs_state_modifying |-> TRUE, requires_payable_executor |-> FALSE,
      needs_payable_setter |-> FALSE, setter_needs_args |-> FALSE, state |-> NoText,
      code |-> <<"msg.sender.send(1 ether);">>, setter |-> NoText, setter_condition |-> NoText,
      executor |-> NoText],
     [name |-> "unchecked_send_literal",
      vuln_type |-> <<"U", "N", "C", "H", "E", "C", "K", "E", "D", "_", "S", "E", "N", "D">>,
      min_version |-> <<"0", ".", "6", ".", "0">>,
      max_version |-> <<"0", ".", "9", ".", "9", "9">>, injection_type |-> "point",
      var_types |-> <<>>, needs_addr_param |-> FALSE, needs_uint_param |-> FALSE,
      needs_state_modifying |-> TRUE, requires_payable_executor |-> FALSE,
      needs_payable_setter |-> FALSE, setter_needs_args |-> FALSE, state |-> NoText,
      code |-> <<"payable(msg.sender).send(1 ether);">>, setter |-> NoText,
      setter_condition |-> NoText, executor |-> NoText],
     [name |-> "unchecked_send_balance_legacy",
      vuln_type |-> <<"U", "N", "C", "H", "E", "C", "K", "E", "D", "_", "S", "E", "N", "D">>,
      min_version |-> <<"0", ".", "4", ".", "0">>,
      max_version |-> <<"0", ".", "5", ".", "9", "9">>, injection_type |-> "point",
      var_types |-> <<>>, needs_addr_param |-> FALSE, needs_uint_param |-> FALSE,
      needs_state_modifying |-> TRUE, requires_payable_executor |-> FALSE,
      needs_payable_setter |-> FALSE, setter_needs_args |-> FALSE, state |-> NoText,
      code |-> <<"msg.sender.send(address(this).balance);">>, setter |-> NoText,
      setter_condition |-> NoText, executor |-> NoText],
     [name |-> "unchecked_send_balance",
      vuln_type |-> <<"U", "N", "C", "H", "E", "C", "K", "E", "D", "_", "S", "E", "N", "D">>,
      min_version |-> <<"0", ".", "6", ".", "0">>,
      max_version |-> <<"0", ".", "9", ".", "9", "9">>, injection_type |-> "point",
      var_types |-> <<>>, needs_addr_param |-> FALSE, needs_uint_param |-> FALSE,
      needs_state_modifying |-> TRUE, requires_payable_executor |-> FALSE,
      needs_payable_setter |-> FALSE, setter_needs_args |-> FALSE, state |-> NoText,
      code |-> <<"payable(msg.sender).send(address(this).balance);">>, setter |-> NoText,
      setter_condition |-> NoText, executor |-> NoText]
    >>

\* templates/point_injection.py: UNHANDLED_CALL_TEMPLATES
UNHANDLED_CALL_TEMPLATES ==
    <<
     [name |-> "unchecked_call_04x",
      vuln_type |-> <<"U", "N", "H", "A", "N", "D", "L", "E", "D", "_", "E", "X", "C", "E", "P", "T", "I", "O", "N">>,
      min_version |-> <<"0", ".", "4", ".", "0">>,
      max_version |-> <<"0", ".", "4", ".", "9", "9">>, injection_type |-> "point",
      var_types |-> <<"uint">>, needs_addr_param |-> TRUE, needs_uint_param |-> FALSE,
      needs_state_modifying |-> TRUE, requires_payable_executor |-> FALSE,
      needs_payable_setter |-> FALSE, setter_needs_args |-> FALSE,
      state |-> <<"uint256 ", "{", "var_uint", "}", " = 1 ether;">>,
      code |-> <<"{", "input_param", "}", ".call.value(", "{", "var_uint", "}", ")();">>,
      setter |-> NoText, setter_condition |-> NoText, executor |-> NoText],
     [name |-> "unchecked_call_05x",
      vuln_type |-> <<"U", "N", "H", "A", "N", "D", "L", "E", "D", "_", "E", "X", "C", "E", "P", "T", "I", "O", "N">>,
      min_version |-> <<"0", ".", "5", ".", "0">>,
      max_version |-> <<"0", ".", "5", ".", "9", "9">>, injection_type |-> "point",
      var_types |-> <<"uint">>, needs_addr_param |-> TRUE, needs_uint_param |-> FALSE,
      needs_state_modifying |-> TRUE, requires_payable_executor |-> FALSE,
      needs_payable_setter |-> FALSE, setter_needs_args |-> FALSE,
      state |-> <<"uint256 ", "{", "var_uint", "}", " = 1 ether;">>,
      code |-> <<"address(uint160(", "{", "input_param", "}", ")).call.value(", "{", "var_uint", "}", ")(\"\");">>,
      setter |-> NoText, setter_condition |-> NoText, executor |-> NoText],
     [name |-> "unchecked_call_06x",
      vuln_type |-> <<"U", "N", "H", "A", "N", "D", "L", "E", "D", "_", "E", "X", "C", "E", "P", "T", "I", "O", "N">>,
      min_version |-> <<"0", ".", "6", ".", "0">>,
      max_version |-> <<"0", ".", "6", ".", "9", "9">>, injection_type |-> "point",
      var_types |-> <<"uint">>, needs_addr_param |-> TRUE, needs_uint_param |-> FALSE,
      needs_state_modifying |-> TRUE, requires_payable_executor |-> FALSE,
      needs_payable_setter |-> FALSE, setter_needs_args |-> FALSE,
      state |-> <<"uint256 ", "{", "var_uint", "}", " = 1 ether;">>,
      code |-> <<"payable(", "{", "input_param", "}", ").call", "{", "value: ", "{", "var_uint", "}", "}", "(\"\");">>,
      setter |-> NoText, setter_condition |-> NoText, executor |-> NoText],
     [name |-> "unchecked_call_modern",
      vuln_type |-> <<"U", "N", "H", "A", "N", "D", "L", "E", "D", "_", "E", "X", "C", "E", "P", "T", "I", "O", "N">>,
      min_version |-> <<"0", ".", "7", ".", "0">>,
      max_version |-> <<"0", ".", "9", ".", "9", "9">>, injection_type |-> "point",
      var_types |-> <<"uint">>, needs_addr_param |-> TRUE, needs_uint_param |-> FALSE,
      needs_state_modifying |-> TRUE, requires_payable_executor |-> FALSE,
      needs_payable_setter |-> FALSE, setter_needs_args |-> FALSE,
      state |-> <<"uint256 ", "{", "var_uint", "}", " = 1 ether;">>,
      code |-> <<"payable(", "{", "input_param", "}", ").call", "{", "value: ", "{", "var_uint", "}", "}", "(\"\");">>,
      setter |-> NoText, setter_condition |-> NoText, executor |-> NoText]
    >>

\* templates/point_injection.py: TIMESTAMP_TEMPLATES
TIMESTAMP_TEMPLATES ==
    <<
     [name |-> "timestamp_comparison",
      vuln_type |-> <<"T", "I", "M", "E", "S", "T", "A", "M", "P">>,
      min_version |-> <<"0", ".", "4", ".", "0">>,
      max_version |-> <<"0", ".", "9", ".", "9", "9">>, injection_type |-> "point",
      var_types |-> <<"uint">>, needs_addr_param |-> FALSE, needs_uint_param |-> FALSE,
      needs_state_modifying |-> FALSE, requires_payable_executor |-> FALSE,
      needs_payable_setter |-> FALSE, setter_needs_args |-> FALSE,
      state |-> <<"uint256 ", "{", "var_uint", "}", ";">>,
      code |-> <<"require(block.timestamp >= ", "{", "var_uint", "}", ");">>, setter |-> NoText,
      setter_condition |-> NoText, executor |-> NoText],
     [name |-> "timestamp_equality", vuln_type |-> <<"T", "I", "M", "E", "S", "T", "A", "M", "P">>,
      min_version |-> <<"0", ".", "4", ".", "0">>,
      max_version |-> <<"0", ".", "4", ".", "9", "9">>, injection_type |-> "point",
      var_types |-> <<"uint">>, needs_addr_param |-> FALSE, needs_uint_param |-> FALSE,
      needs_state_modifying |-> TRUE, requires_payable_executor |-> FALSE,
      needs_payable_setter |-> FALSE, setter_needs_args |-> FALSE,
      state |-> <<"uint256 ", "{", "var_uint", "}", ";">>,
      code |-> <<"if (block.timestamp == ", "{", "var_uint", "}", ") ", "{", "\n", "{", "indent", "}", "    msg.sender.transfer(1 wei);", "\n", "{", "indent", "}", "}">>,
      setter |-> NoText, setter_condition |-> NoText, executor |-> NoText],
     [name |-> "timestamp_equality_050",
      vuln_type |-> <<"T", "I", "M", "E", "S", "T", "A", "M", "P">>,
      min_version |-> <<"0", ".", "5", ".", "0">>,
      max_version |-> <<"0", ".", "5", ".", "9", "9">>, injection_type |-> "point",
      var_types |-> <<"uint">>, needs_addr_param |-> FALSE, needs_uint_param |-> FALSE,
      needs_state_modifying |-> TRUE, requires_payable_executor |-> FALSE,
      needs_payable_setter |-> FALSE, setter_needs_args |-> FALSE,
      state |-> <<"uint256 ", "{", "var_uint", "}", ";">>,
      code |-> <<"if (block.timestamp == ", "{", "var_uint", "}", ") ", "{", "\n", "{", "indent", "}", "    msg.sender.transfer(1 wei);", "\n", "{", "indent", "}", "}">>,
      setter |-> NoText, setter_condition |-> NoText, executor |-> NoText],
     [name |-> "timestamp_equality_060",
      vuln_type |-> <<"T", "I", "M", "E", "S", "T", "A", "M", "P">>,
      min_version |-> <<"0", ".", "6", ".", "0">>,
      max_version |-> <<"0", ".", "9", ".", "9", "9">>, injection_type |-> "point",
      var_types |-> <<"uint">>, needs_addr_param |-> FALSE, needs_uint_param |-> FALSE,
      needs_state_modifying |-> TRUE, requires_payable_executor |-> FALSE,
      needs_payable_setter |-> FALSE, setter_needs_args |-> FALSE,
      state |-> <<"uint256 ", "{", "var_uint", "}", ";">>,
      code |-> <<"if (block.timestamp == ", "{", "var_uint", "}", ") ", "{", "\n", "{", "indent", "}", "    payable(msg.sender).transfer(1 wei);", "\n", "{", "indent", "}", "}">>,
      setter |-> NoText, setter_condition |-> NoText, executor |-> NoText],
     [name |-> "timestamp_storage", vuln_type |-> <<"T", "I", "M", "E", "S", "T", "A", "M", "P">>,
      min_version |-> <<"0", ".", "4", ".", "0">>,
      max_version |-> <<"0", ".", "9", ".", "9", "9">>, injection_type |-> "state_only",
      var_types |-> <<"time">>, needs_addr_param |-> FALSE, needs_uint_param |-> FALSE,
      needs_state_modifying |-> FALSE, requires_payable_executor |-> FALSE,
      needs_payable_setter |-> FALSE, setter_needs_args |-> FALSE,
      state |-> <<"uint256 ", "{", "var_time", "}", " = block.timestamp;">>, code |-> NoText,
      setter |-> NoText, setter_condition |-> NoText, executor |-> NoText]
    >>

\* templates/reentrancy.py: REENTRANCY_TEMPLATES
REENTRANCY_TEMPLATES ==
    <<
     [name |-> "call_value_legacy",
      vuln_type |-> <<"R", "E", "E", "N", "T", "R", "A", "N", "C", "Y">>,
      min_version |-> <<"0", ".", "4", ".", "0">>,
      max_version |-> <<"0", ".", "4", ".", "9", "9">>, injection_type |-> "point",
      var_types |-> <<"mapping">>, needs_addr_param |-> FALSE, needs_uint_param |-> FALSE,
      needs_state_modifying |-> FALSE, requires_payable_executor |-> FALSE,
      needs_payable_setter |-> FALSE, setter_needs_args |-> FALSE,
      state |-> <<"mapping(address => uint256) ", "{", "var_mapping", "}", ";", "\n", "{", "indent", "}", "function deposit_", "{", "var_mapping", "}", "() public payable ", "{", "\n", "{", "indent", "}", "    ", "{", "var_mapping", "}", "[msg.sender] += msg.value;", "\n", "{", "indent", "}", "}">>,
      code |-> <<"uint256 _amt = ", "{", "var_mapping", "}", "[msg.sender];", "\n", "{", "indent", "}", "if (_amt > 0) ", "{", "\n", "{", "indent", "}", "    require(msg.sender.call.value(_amt)());", "\n", "{", "indent", "}", "    ", "{", "var_mapping", "}", "[msg.sender] = 0;", "\n", "{", "indent", "}", "}">>,
      setter |-> NoText, setter_condition |-> NoText, executor |-> NoText],
     [name |-> "call_value_050",
      vuln_type |-> <<"R", "E", "E", "N", "T", "R", "A", "N", "C", "Y">>,
      min_version |-> <<"0", ".", "5", ".", "0">>,
      max_version |-> <<"0", ".", "6", ".", "9", "9">>, injection_type |-> "point",
      var_types |-> <<"mapping">>, needs_addr_param |-> FALSE, needs_uint_param |-> FALSE,
      needs_state_modifying |-> FALSE, requires_payable_executor |-> FALSE,
      needs_payable_setter |-> FALSE, setter_needs_args |-> FALSE,
      state |-> <<"mapping(address => uint256) ", "{", "var_mapping", "}", ";", "\n", "{", "indent", "}", "function deposit_", "{", "var_mapping", "}", "() public payable ", "{", "\n", "{", "indent", "}", "    ", "{", "var_mapping", "}", "[msg.sender] += msg.value;", "\n", "{", "indent", "}", "}">>,
      code |-> <<"uint256 _amt = ", "{", "var_mapping", "}", "[msg.sender];", "\n", "{", "indent", "}", "if (_amt > 0) ", "{", "\n", "{", "indent", "}", "    (bool _success, ) = msg.sender.call.value(_amt)(\"\");", "\n", "{", "indent", "}", "    require(_success);", "\n", "{", "indent", "}", "    ", "{", "var_mapping", "}", "[msg.sender] = 0;", "\n", "{", "indent", "}", "}">>,
      setter |-> NoText, setter_condition |-> NoText, executor |-> NoText],
     [name |-> "call_value_modern",
      vuln_type |-> <<"R", "E", "E", "N", "T", "R", "A", "N", "C", "Y">>,
      min_version |-> <<"0", ".", "7", ".", "0">>,
      max_version |-> <<"0", ".", "9", ".", "9", "9">>, injection_type |-> "point",
      var_types |-> <<"mapping">>, needs_addr_param |-> FALSE, needs_uint_param |-> FALSE,
      needs_state_modifying |-> FALSE, requires_payable_executor |-> FALSE,
      needs_payable_setter |-> FALSE, setter_needs_args |-> FALSE,
      state |-> <<"mapping(address => uint256) ", "{", "var_mapping", "}", ";", "\n", "{", "indent", "}", "function deposit_", "{", "var_mapping", "}", "() public payable ", "{", "\n", "{", "indent", "}", "    ", "{", "var_mapping", "}", "[msg.sender] += msg.value;", "\n", "{", "indent", "}", "}">>,
      code |-> <<"uint256 _amt = ", "{", "var_mapping", "}", "[msg.sender];", "\n", "{", "indent", "}", "if (_amt > 0) ", "{", "\n", "{", "indent", "}", "    (bool _success, ) = msg.sender.call", "{", "value: _amt", "}", "(\"\");", "\n", "{", "indent", "}", "    require(_success);", "\n", "{", "indent", "}", "    ", "{", "var_mapping", "}", "[msg.sender] = 0;", "\n", "{", "indent", "}", "}">>,
      setter |-> NoText, setter_condition |-> NoText, executor |-> NoText],
     [name |-> "send_reentrancy",
      vuln_type |-> <<"R", "E", "E", "N", "T", "R", "A", "N", "C", "Y">>,
      min_version |-> <<"0", ".", "4", ".", "0">>,
      max_version |-> <<"0", ".", "7", ".", "9", "9">>, injection_type |-> "point",
      var_types |-> <<"mapping">>, needs_addr_param |-> FALSE, needs_uint_param |-> FALSE,
      needs_state_modifying |-> FALSE, requires_payable_executor |-> FALSE,
      needs_payable_setter |-> FALSE, setter_needs_args |-> FALSE,
      state |-> <<"mapping(address => uint256) ", "{", "var_mapping", "}", ";", "\n", "{", "indent", "}", "function deposit_", "{", "var_mapping", "}", "() public payable ", "{", "\n", "{", "indent", "}", "    ", "{", "var_mapping", "}", "[msg.sender] += msg.value;", "\n", "{", "indent", "}", "}">>,
      code |-> <<"uint256 _amt = ", "{", "var_mapping", "}", "[msg.sender];", "\n", "{", "indent", "}", "if (_amt > 0) ", "{", "\n", "{", "indent", "}", "    msg.sender.send(_amt);", "\n", "{", "indent", "}", "    ", "{", "var_mapping", "}", "[msg.sender] = 0;", "\n", "{", "indent", "}", "}">>,
      setter |-> NoText, setter_condition |-> NoText, executor |-> NoText],
     [name |-> "transfer_reentrancy_legacy",
      vuln_type |-> <<"R", "E", "E", "N", "T", "R", "A", "N", "C", "Y">>,
      min_version |-> <<"0", ".", "4", ".", "0">>,
      max_version |-> <<"0", ".", "5", ".", "9", "9">>, injection_type |-> "point",
      var_types |-> <<"mapping">>, needs_addr_param |-> FALSE, needs_uint_param |-> FALSE,
      needs_state_modifying |-> FALSE, requires_payable_executor |-> FALSE,
      needs_payable_setter |-> FALSE, setter_needs_args |-> FALSE,
      state |-> <<"mapping(address => uint256) ", "{", "var_mapping", "}", ";", "\n", "{", "indent", "}", "function deposit_", "{", "var_mapping", "}", "() public payable ", "{", "\n", "{", "indent", "}", "    ", "{", "var_mapping", "}", "[msg.sender] += msg.value;", "\n", "{", "indent", "}", "}">>,
      code |-> <<"uint256 _amt = ", "{", "var_mapping", "}", "[msg.sender];", "\n", "{", "indent", "}", "if (_amt > 0) ", "{", "\n", "{", "indent", "}", "    msg.sender.transfer(_amt);", "\n", "{", "indent", "}", "    ", "{", "var_mapping", "}", "[msg.sender] = 0;", "\n", "{", "indent", "}", "}">>,
      setter |-> NoText, setter_condition |-> NoText, executor |-> NoText],
     [name |-> "transfer_reentrancy",
      vuln_type |-> <<"R", "E", "E", "N", "T", "R", "A", "N", "C", "Y">>,
      min_version |-> <<"0", ".", "6", ".", "0">>,
      max_version |-> <<"0", ".", "8", ".", "9", "9">>, injection_type |-> "point",
      var_types |-> <<"mapping">>, needs_addr_param |-> FALSE, needs_uint_param |-> FALSE,
      needs_state_modifying |-> FALSE, requires_payable_executor |-> FALSE,
      needs_payable_setter |-> FALSE, setter_needs_args |-> FALSE,
      state |-> <<"mapping(address => uint256) ", "{", "var_mapping", "}", ";", "\n", "{", "indent", "}", "function deposit_", "{", "var_mapping", "}", "() public payable ", "{", "\n", "{", "indent", "}", "    ", "{", "var_mapping", "}", "[msg.sender] += msg.value;", "\n", "{", "indent", "}", "}">>,
      code |-> <<"uint256 _amt = ", "{", "var_mapping", "}", "[msg.sender];", "\n", "{", "indent", "}", "if (_amt > 0) ", "{", "\n", "{", "indent", "}", "    payable(msg.sender).transfer(_amt);", "\n", "{", "indent", "}", "    ", "{", "var_mapping", "}", "[msg.sender] = 0;", "\n", "{", "indent", "}", "}">>,
      setter |-> NoText, setter_condition |-> NoText, executor |-> NoText],
     [name |-> "withdraw_reentrancy_legacy",
      vuln_type |-> <<"R", "E", "E", "N", "T", "R", "A", "N", "C", "Y">>,
      min_version |-> <<"0", ".", "4", ".", "0">>,
      max_version |-> <<"0", ".", "4", ".", "9", "9">>, injection_type |-> "point",
      var_types |-> <<"mapping">>, needs_addr_param |-> FALSE, needs_uint_param |-> FALSE,
      needs_state_modifying |-> FALSE, requires_payable_executor |-> FALSE,
      needs_payable_setter |-> FALSE, setter_needs_args |-> FALSE,
      state |-> <<"mapping(address => uint256) ", "{", "var_mapping", "}", ";", "\n", "{", "indent", "}", "function deposit_", "{", "var_mapping", "}", "() public payable ", "{", "\n", "{", "indent", "}", "    ", "{", "var_mapping", "}", "[msg.sender] += msg.value;", "\n", "{", "indent", "}", "}">>,
      code |-> <<"uint256 _balance = ", "{", "var_mapping", "}", "[msg.sender];", "\n", "{", "indent", "}", "if (_balance > 0) ", "{", "\n", "{", "indent", "}", "    msg.sender.call.value(_balance)();", "\n", "{", "indent", "}", "    ", "{", "var_mapping", "}", "[msg.sender] = 0;", "\n", "{", "indent", "}", "}">>,
      setter |-> NoText, setter_condition |-> NoText, executor |-> NoText],
     [name |-> "withdraw_reentrancy_050",
      vuln_type |-> <<"R", "E", "E", "N", "T", "R", "A", "N", "C", "Y">>,
      min_version |-> <<"0", ".", "5", ".", "0">>,
      max_version |-> <<"0", ".", "6", ".", "9", "9">>, injection_type |-> "point",
      var_types |-> <<"mapping">>, needs_addr_param |-> FALSE, needs_uint_param |-> FALSE,
      needs_state_modifying |-> FALSE, requires_payable_executor |-> FALSE,
      needs_payable_setter |-> FALSE, setter_needs_args |-> FALSE,
      state |-> <<"mapping(address => uint256) ", "{", "var_mapping", "}", ";", "\n", "{", "indent", "}", "function deposit_", "{", "var_mapping", "}", "() public payable ", "{", "\n", "{", "indent", "}", "    ", "{", "var_mapping", "}", "[msg.sender] += msg.value;", "\n", "{", "indent", "}", "}">>,
      code |-> <<"uint256 _balance = ", "{", "var_mapping", "}", "[msg.sender];", "\n", "{", "indent", "}", "if (_balance > 0) ", "{", "\n", "{", "indent", "}", "    (bool _sent, ) = msg.sender.call.value(_balance)(\"\");", "\n", "{", "indent", "}", "    require(_sent);", "\n", "{", "indent", "}", "    ", "{", "var_mapping", "}", "[msg.sender] = 0;", "\n", "{", "indent", "}", "}">>,
      setter |-> NoText, setter_condition |-> NoText, executor |-> NoText],
     [name |-> "delegate_reentrancy",
      vuln_type |-> <<"R", "E", "E", "N", "T", "R", "A", "N", "C", "Y">>,
      min_version |-> <<"0", ".", "7", ".", "0">>,
      max_version |-> <<"0", ".", "8", ".", "9", "9">>, injection_type |-> "point",
      var_types |-> <<"mapping", "address">>, needs_addr_param |-> FALSE,
      needs_uint_param |-> FALSE, needs_state_modifying |-> FALSE,
      requires_payable_executor |-> FALSE, needs_payable_setter |-> FALSE,
      setter_needs_args |-> FALSE,
      state |-> <<"address public ", "{", "var_addr", "}", "_lib;", "\n", "{", "indent", "}", "mapping(address => uint256) public ", "{", "var_mapping", "}", ";", "\n", "{", "indent", "}", "function setLib_", "{", "var_mapping", "}", "(address _lib) public ", "{", "\n", "{", "indent", "}", "    ", "{", "var_addr", "}", "_lib = _lib;", "\n", "{", "indent", "}", "}", "\n", "{", "indent", "}", "function deposit_", "{", "var_mapping", "}", "() public payable ", "{", "\n", "{", "indent", "}", "    ", "{", "var_mapping", "}", "[msg.sender] += msg.value;", "\n", "{", "indent", "}", "}">>,
      code |-> <<"uint256 _amt = ", "{", "var_mapping", "}", "[msg.sender];", "\n", "{", "indent", "}", "if (_amt > 0) ", "{", "\n", "{", "indent", "}", "    (bool success, ) = ", "{", "var_addr", "}", "_lib.delegatecall(", "\n", "{", "indent", "}", "        abi.encodeWithSignature(\"sendEth(address,uint256)\", msg.sender, _amt)", "\n", "{", "indent", "}", "    );", "\n", "{", "indent", "}", "    require(success, \"Delegatecall failed\");", "\n", "{", "indent", "}", "    ", "{", "var_mapping", "}", "[msg.sender] = 0;", "\n", "{", "indent", "}", "}">>,
      setter |-> NoText, setter_condition |-> NoText, executor |-> NoText],
     [name |-> "create_reentrancy",
      vuln_type |-> <<"R", "E", "E", "N", "T", "R", "A", "N", "C", "Y">>,
      min_version |-> <<"0", ".", "7", ".", "0">>,
      max_version |-> <<"0", ".", "9", ".", "9", "9">>, injection_type |-> "point",
      var_types |-> <<"mapping", "bool">>, needs_addr_param |-> FALSE, needs_uint_param |-> FALSE,
      needs_state_modifying |-> FALSE, requires_payable_executor |-> FALSE,
      needs_payable_setter |-> FALSE, setter_needs_args |-> FALSE,
      state |-> <<"mapping(address => uint256) public ", "{", "var_mapping", "}", ";", "\n", "{", "indent", "}", "bool public ", "{", "var_bool", "}", "_initialized;", "\n", "{", "indent", "}", "constructor() payable ", "{", "\n", "{", "indent", "}", "    ", "{", "var_mapping", "}", "[msg.sender] = msg.value;", "\n", "{", "indent", "}", "    (bool _ok, ) = msg.sender.call", "{", "value: address(this).balance", "}", "(\"\");", "\n", "{", "indent", "}", "    require(_ok);", "\n", "{", "indent", "}", "    ", "{", "var_bool", "}", "_initialized = true;", "\n", "{", "indent", "}", "}">>,
      code |-> <<"uint256 _credit = ", "{", "var_mapping", "}", "[msg.sender];", "\n", "{", "indent", "}", "if (_credit > 0) ", "{", "\n", "{", "indent", "}", "    (bool _ok, ) = msg.sender.call", "{", "value: _credit", "}", "(\"\");", "\n", "{", "indent", "}", "    require(_ok);", "\n", "{", "indent", "}", "    ", "{", "var_mapping", "}", "[msg.sender] = 0;", "\n", "{", "indent", "}", "}">>,
      setter |-> NoText, setter_condition |-> NoText, executor |-> NoText]
    >>

\* templates/coupled_injection.py: CROSS_FUNCTION_TEMPLATES
CROSS_FUNCTION_TEMPLATES ==
    <<
     [name |-> "tod_transfer_legacy", vuln_type |-> <<"T", "O", "D">>,
      min_version |-> <<"0", ".", "4", ".", "1", "1">>,
      max_version |-> <<"0", ".", "4", ".", "9", "9">>, injection_type |-> "None",
      var_types |-> <<"addr">>, needs_addr_param |-> FALSE, needs_uint_param |-> FALSE,
      needs_state_modifying |-> FALSE, requires_payable_executor |-> TRUE,
      needs_payable_setter |-> FALSE, setter_needs_args |-> TRUE,
      state |-> <<"address ", "{", "var_addr", "}", ";">>, code |-> NoText,
      setter |-> <<"{", "var_addr", "}", " = ", "{", "input_param", "}", ";">>,
      setter_condition |-> NoText, executor |-> <<"{", "var_addr", "}", ".transfer(msg.value);">>],
     [name |-> "tod_transfer", vuln_type |-> <<"T", "O", "D">>,
      min_version |-> <<"0", ".", "5", ".", "0">>,
      max_version |-> <<"0", ".", "9", ".", "9", "9">>, injection_type |-> "None",
      var_types |-> <<"addr">>, needs_addr_param |-> FALSE, needs_uint_param |-> FALSE,
      needs_state_modifying |-> FALSE, requires_payable_executor |-> TRUE,
      needs_payable_setter |-> FALSE, setter_needs_args |-> TRUE,
      state |-> <<"address payable ", "{", "var_addr", "}", ";">>, code |-> NoText,
      setter |-> <<"{", "var_addr", "}", " = address(uint160(", "{", "input_param", "}", "));">>,
      setter_condition |-> NoText, executor |-> <<"{", "var_addr", "}", ".transfer(msg.value);">>],
     [name |-> "tod_send_legacy", vuln_type |-> <<"T", "O", "D">>,
      min_version |-> <<"0", ".", "4", ".", "1", "1">>,
      max_version |-> <<"0", ".", "4", ".", "9", "9">>, injection_type |-> "None",
      var_types |-> <<"addr">>, needs_addr_param |-> FALSE, needs_uint_param |-> FALSE,
      needs_state_modifying |-> FALSE, requires_payable_executor |-> TRUE,
      needs_payable_setter |-> FALSE, setter_needs_args |-> TRUE,
      state |-> <<"address ", "{", "var_addr", "}", ";">>, code |-> NoText,
      setter |-> <<"{", "var_addr", "}", " = ", "{", "input_param", "}", ";">>,
      setter_condition |-> NoText, executor |-> <<"{", "var_addr", "}", ".send(msg.value);">>],
     [name |-> "tod_send", vuln_type |-> <<"T", "O", "D">>,
      min_version |-> <<"0", ".", "5", ".", "0">>,
      max_version |-> <<"0", ".", "9", ".", "9", "9">>, injection_type |-> "None",
      var_types |-> <<"addr">>, needs_addr_param |-> FALSE, needs_uint_param |-> FALSE,
      needs_state_modifying |-> FALSE, requires_payable_executor |-> TRUE,
      needs_payable_setter |-> FALSE, setter_needs_args |-> TRUE,
      state |-> <<"address payable ", "{", "var_addr", "}", ";">>, code |-> NoText,
      setter |-> <<"{", "var_addr", "}", " = address(uint160(", "{", "input_param", "}", "));">>,
      setter_condition |-> NoText, executor |-> <<"{", "var_addr", "}", ".send(msg.value);">>],
     [name |-> "tod_call_04x", vuln_type |-> <<"T", "O", "D">>,
      min_version |-> <<"0", ".", "4", ".", "1", "1">>,
      max_version |-> <<"0", ".", "4", ".", "9", "9">>, injection_type |-> "None",
      var_types |-> <<"addr">>, needs_addr_param |-> FALSE, needs_uint_param |-> FALSE,
      needs_state_modifying |-> FALSE, requires_payable_executor |-> TRUE,
      needs_payable_setter |-> FALSE, setter_needs_args |-> TRUE,
      state |-> <<"address ", "{", "var_addr", "}", ";">>, code |-> NoText,
      setter |-> <<"{", "var_addr", "}", " = ", "{", "input_param", "}", ";">>,
      setter_condition |-> NoText,
      executor |-> <<"require(", "{", "var_addr", "}", ".call.value(msg.value)(\"\"));">>],
     [name |-> "tod_call_legacy", vuln_type |-> <<"T", "O", "D">>,
      min_version |-> <<"0", ".", "5", ".", "0">>,
      max_version |-> <<"0", ".", "6", ".", "9", "9">>, injection_type |-> "None",
      var_types |-> <<"addr">>, needs_addr_param |-> FALSE, needs_uint_param |-> FALSE,
      needs_state_modifying |-> FALSE, requires_payable_executor |-> TRUE,
      needs_payable_setter |-> FALSE, setter_needs_args |-> TRUE,
      state |-> <<"address payable ", "{", "var_addr", "}", ";">>, code |-> NoText,
      setter |-> <<"{", "var_addr", "}", " = address(uint160(", "{", "input_param", "}", "));">>,
      setter_condition |-> NoText,
      executor |-> <<"(bool success, ) = ", "{", "var_addr", "}", ".call.value(msg.value)(\"\");", "\n", "{", "indent", "}", "require(success);">>],
     [name |-> "tod_call_modern", vuln_type |-> <<"T", "O", "D">>,
      min_version |-> <<"0", ".", "7", ".", "0">>,
      max_version |-> <<"0", ".", "9", ".", "9", "9">>, injection_type |-> "None",
      var_types |-> <<"addr">>, needs_addr_param |-> FALSE, needs_uint_param |-> FALSE,
      needs_state_modifying |-> FALSE, requires_payable_executor |-> TRUE,
      needs_payable_setter |-> FALSE, setter_needs_args |-> TRUE,
      state |-> <<"address payable ", "{", "var_addr", "}", ";">>, code |-> NoText,
      setter |-> <<"{", "var_addr", "}", " = payable(", "{", "input_param", "}", ");">>,
      setter_condition |-> NoText,
      executor |-> <<"(bool success, ) = ", "{", "var_addr", "}", ".call", "{", "value: msg.value", "}", "(\"\");", "\n", "{", "indent", "}", "require(success);">>],
     [name |-> "access_control_owner",
      vuln_type |-> <<"A", "C", "C", "E", "S", "S", "_", "C", "O", "N", "T", "R", "O", "L">>,
      min_version |-> <<"0", ".", "4", ".", "1", "1">>,
      max_version |-> <<"0", ".", "9", ".", "9", "9">>, injection_type |-> "None",
      var_types |-> <<"addr">>, needs_addr_param |-> FALSE, needs_uint_param |-> FALSE,
      needs_state_modifying |-> FALSE, requires_payable_executor |-> FALSE,
      needs_payable_setter |-> FALSE, setter_needs_args |-> TRUE,
      state |-> <<"address ", "{", "var_addr", "}", ";">>, code |-> NoText,
      setter |-> <<"{", "var_addr", "}", " = ", "{", "input_param", "}", ";">>,
      setter_condition |-> NoText,
      executor |-> <<"require(msg.sender == ", "{", "var_addr", "}", ");">>],
     [name |-> "timestamp_unlock", vuln_type |-> <<"T", "I", "M", "E", "S", "T", "A", "M", "P">>,
      min_version |-> <<"0", ".", "4", ".", "1", "1">>,
      max_version |-> <<"0", ".", "9", ".", "9", "9">>, injection_type |-> "None",
      var_types |-> <<"addr", "time">>, needs_addr_param |-> FALSE, needs_uint_param |-> FALSE,
      needs_state_modifying |-> FALSE, requires_payable_executor |-> TRUE,
      needs_payable_setter |-> FALSE, setter_needs_args |-> TRUE,
      state |-> <<"uint256 ", "{", "var_time", "}", ";", "\n", "    address payable ", "{", "var_addr", "}", ";">>,
      code |-> NoText,
      setter |-> <<"{", "var_time", "}", " = block.timestamp + 1 days;", "\n", "{", "indent", "}", "{", "var_addr", "}", " = msg.sender;">>,
      setter_condition |-> NoText,
      executor |-> <<"require(block.timestamp >= ", "{", "var_time", "}", ");", "\n", "{", "indent", "}", "{", "var_addr", "}", ".transfer(msg.value);">>],
     [name |-> "dos_refund_legacy", vuln_type |-> <<"D", "O", "S">>,
      min_version |-> <<"0", ".", "4", ".", "1", "1">>,
      max_version |-> <<"0", ".", "4", ".", "9", "9">>, injection_type |-> "None",
      var_types |-> <<"array", "mapping", "addr">>, needs_addr_param |-> FALSE,
      needs_uint_param |-> FALSE, needs_state_modifying |-> FALSE,
      requires_payable_executor |-> FALSE, needs_payable_setter |-> FALSE,
      setter_needs_args |-> TRUE,
      state |-> <<"address[] ", "{", "var_array", "}", ";", "\n", "    mapping(address => uint256) ", "{", "var_mapping", "}", ";">>,
      code |-> NoText,
      setter |-> <<"{", "var_array", "}", ".push(", "{", "input_param", "}", ");", "\n", "{", "indent", "}", "{", "var_mapping", "}", "[", "{", "input_param", "}", "] = msg.value;">>,
      setter_condition |-> NoText,
      executor |-> <<"for(uint i = 0; i < ", "{", "var_array", "}", ".length; i++) ", "{", "{", "\n", "{", "indent", "}", "    ", "{", "var_array", "}", "[i].transfer(", "{", "var_mapping", "}", "[", "{", "var_array", "}", "[i]]);", "\n", "{", "indent", "}", "}", "}">>],
     [name |-> "dos_refund_050", vuln_type |-> <<"D", "O", "S">>,
      min_version |-> <<"0", ".", "5", ".", "0">>,
      max_version |-> <<"0", ".", "5", ".", "9", "9">>, injection_type |-> "None",
      var_types |-> <<"array", "mapping", "addr">>, needs_addr_param |-> FALSE,
      needs_uint_param |-> FALSE, needs_state_modifying |-> FALSE,
      requires_payable_executor |-> FALSE, needs_payable_setter |-> TRUE,
      setter_needs_args |-> TRUE,
      state |-> <<"address payable[] ", "{", "var_array", "}", ";", "\n", "    mapping(address => uint256) ", "{", "var_mapping", "}", ";">>,
      code |-> NoText,
      setter |-> <<"{", "var_array", "}", ".push(address(uint160(", "{", "input_param", "}", ")));", "\n", "{", "indent", "}", "{", "var_mapping", "}", "[", "{", "input_param", "}", "] = msg.value;">>,
      setter_condition |-> NoText,
      executor |-> <<"for(uint i = 0; i < ", "{", "var_array", "}", ".length; i++) ", "{", "{", "\n", "{", "indent", "}", "    ", "{", "var_array", "}", "[i].transfer(", "{", "var_mapping", "}", "[", "{", "var_array", "}", "[i]]);", "\n", "{", "indent", "}", "}", "}">>],
     [name |-> "dos_refund", vuln_type |-> <<"D", "O", "S">>,
      min_version |-> <<"0", ".", "6", ".", "0">>,
      max_version |-> <<"0", ".", "9", ".", "9", "9">>, injection_type |-> "None",
      var_types |-> <<"array", "mapping", "addr">>, needs_addr_param |-> FALSE,
      needs_uint_param |-> FALSE, needs_state_modifying |-> FALSE,
      requires_payable_executor |-> FALSE, needs_payable_setter |-> FALSE,
      setter_needs_args |-> TRUE,
      state |-> <<"address payable[] ", "{", "var_array", "}", ";", "\n", "    mapping(address => uint256) ", "{", "var_mapping", "}", ";">>,
      code |-> NoText,
      setter |-> <<"{", "var_array", "}", ".push(payable(", "{", "input_param", "}", "));", "\n", "{", "indent", "}", "{", "var_mapping", "}", "[", "{", "input_param", "}", "] = msg.value;">>,
      setter_condition |-> NoText,
      executor |-> <<"for(uint i = 0; i < ", "{", "var_array", "}", ".length; i++) ", "{", "{", "\n", "{", "indent", "}", "    ", "{", "var_array", "}", "[i].transfer(", "{", "var_mapping", "}", "[", "{", "var_array", "}", "[i]]);", "\n", "{", "indent", "}", "}", "}">>],
     [name |-> "state_update_after_call",
      vuln_type |-> <<"R", "E", "E", "N", "T", "R", "A", "N", "C", "Y">>,
      min_version |-> <<"0", ".", "4", ".", "1", "1">>,
      max_version |-> <<"0", ".", "4", ".", "9", "9">>, injection_type |-> "None",
      var_types |-> <<"addr", "mapping">>, needs_addr_param |-> FALSE, needs_uint_param |-> FALSE,
      needs_state_modifying |-> FALSE, requires_payable_executor |-> FALSE,
      needs_payable_setter |-> FALSE, setter_needs_args |-> FALSE,
      state |-> <<"mapping(address => uint256) ", "{", "var_mapping", "}", ";", "\n", "    address ", "{", "var_addr", "}", ";">>,
      code |-> NoText,
      setter |-> <<"{", "var_mapping", "}", "[msg.sender] = msg.value;", "\n", "{", "indent", "}", "{", "var_addr", "}", " = msg.sender;">>,
      setter_condition |-> NoText,
      executor |-> <<"uint256 amount = ", "{", "var_mapping", "}", "[msg.sender];", "\n", "{", "indent", "}", "{", "var_addr", "}", ".call.value(amount)(\"\");", "\n", "{", "indent", "}", "{", "var_mapping", "}", "[msg.sender] = 0;">>]
    >>

\* templates/coupled_injection.py: REENTRANCY_COUPLED_TEMPLATES
REENTRANCY_COUPLED_TEMPLATES ==
    <<
     [name |-> "reentrancy_call_check",
      vuln_type |-> <<"R", "E", "E", "N", "T", "R", "A", "N", "C", "Y">>,
      min_version |-> <<"0", ".", "5", ".", "0">>,
      max_version |-> <<"0", ".", "6", ".", "9", "9">>, injection_type |-> "coupled",
      var_types |-> <<"mapping">>, needs_addr_param |-> FALSE, needs_uint_param |-> FALSE,
      needs_state_modifying |-> FALSE, requires_payable_executor |-> FALSE,
      needs_payable_setter |-> TRUE, setter_needs_args |-> FALSE,
      state |-> <<"mapping(address => uint256) ", "{", "var_mapping", "}", ";">>, code |-> NoText,
      setter |-> <<"{", "var_mapping", "}", "[msg.sender] = msg.value;">>,
      setter_condition |-> NoText,
      executor |-> <<"(bool success,) = msg.sender.call.value(", "{", "var_mapping", "}", "[msg.sender])(\"\");", "\n", "{", "indent", "}", "if (success)", "\n", "{", "indent", "}", "    ", "{", "var_mapping", "}", "[msg.sender] = 0;">>],
     [name |-> "reentrancy_send_check",
      vuln_type |-> <<"R", "E", "E", "N", "T", "R", "A", "N", "C", "Y">>,
      min_version |-> <<"0", ".", "4", ".", "1", "1">>,
      max_version |-> <<"0", ".", "9", ".", "9", "9">>, injection_type |-> "coupled",
      var_types |-> <<"mapping">>, needs_addr_param |-> FALSE, needs_uint_param |-> FALSE,
      needs_state_modifying |-> FALSE, requires_payable_executor |-> FALSE,
      needs_payable_setter |-> TRUE, setter_needs_args |-> FALSE,
      state |-> <<"mapping(address => uint256) ", "{", "var_mapping", "}", ";">>, code |-> NoText,
      setter |-> <<"{", "var_mapping", "}", "[msg.sender] = msg.value;">>,
      setter_condition |-> NoText,
      executor |-> <<"if (msg.sender.send(", "{", "var_mapping", "}", "[msg.sender]))", "\n", "{", "indent", "}", "    ", "{", "var_mapping", "}", "[msg.sender] = 0;">>],
     [name |-> "reentrancy_require_send",
      vuln_type |-> <<"R", "E", "E", "N", "T", "R", "A", "N", "C", "Y">>,
      min_version |-> <<"0", ".", "4", ".", "1", "1">>,
      max_version |-> <<"0", ".", "9", ".", "9", "9">>, injection_type |-> "coupled",
      var_types |-> <<"mapping">>, needs_addr_param |-> FALSE, needs_uint_param |-> FALSE,
      needs_state_modifying |-> FALSE, requires_payable_executor |-> FALSE,
      needs_payable_setter |-> TRUE, setter_needs_args |-> FALSE,
      state |-> <<"mapping(address => uint256) ", "{", "var_mapping", "}", ";">>, code |-> NoText,
      setter |-> <<"{", "var_mapping", "}", "[msg.sender] = msg.value;">>,
      setter_condition |-> NoText,
      executor |-> <<"require(msg.sender.send(", "{", "var_mapping", "}", "[msg.sender]));", "\n", "{", "indent", "}", "{", "var_mapping", "}", "[msg.sender] = 0;">>],
     [name |-> "reentrancy_bool_guard",
      vuln_type |-> <<"R", "E", "E", "N", "T", "R", "A", "N", "C", "Y">>,
      min_version |-> <<"0", ".", "4", ".", "1", "1">>,
      max_version |-> <<"0", ".", "9", ".", "9", "9">>, injection_type |-> "coupled",
      var_types |-> <<"bool">>, needs_addr_param |-> FALSE, needs_uint_param |-> FALSE,
      needs_state_modifying |-> FALSE, requires_payable_executor |-> FALSE,
      needs_payable_setter |-> FALSE, setter_needs_args |-> FALSE,
      state |-> <<"bool ", "{", "var_bool", "}", " = true;">>, code |-> NoText,
      setter |-> <<"{", "var_bool", "}", " = true;">>, setter_condition |-> NoText,
      executor |-> <<"require(", "{", "var_bool", "}", ");", "\n", "{", "indent", "}", "if (!msg.sender.send(1 ether)) ", "{", "\n", "{", "indent", "}", "    revert();", "\n", "{", "indent", "}", "}", "\n", "{", "indent", "}", "{", "var_bool", "}", " = false;">>],
     [name |-> "reentrancy_jackpot",
      vuln_type |-> <<"R", "E", "E", "N", "T", "R", "A", "N", "C", "Y">>,
      min_version |-> <<"0", ".", "4", ".", "1", "1">>,
      max_version |-> <<"0", ".", "9", ".", "9", "9">>, injection_type |-> "coupled",
      var_types |-> <<"addr", "uint">>, needs_addr_param |-> FALSE, needs_uint_param |-> TRUE,
      needs_state_modifying |-> FALSE, requires_payable_executor |-> FALSE,
      needs_payable_setter |-> FALSE, setter_needs_args |-> FALSE,
      state |-> <<"address payable ", "{", "var_addr", "}", ";", "\n", "    uint256 ", "{", "var_uint", "}", ";">>,
      code |-> NoText,
      setter |-> <<"{", "var_addr", "}", " = msg.sender;", "\n", "{", "indent", "}", "{", "var_uint", "}", " = ", "{", "input_param", "}", ";">>,
      setter_condition |-> NoText,
      executor |-> <<"if (", "{", "var_addr", "}", ".send(", "{", "var_uint", "}", ")) ", "{", "\n", "{", "indent", "}", "    ", "{", "var_uint", "}", " = 0;", "\n", "{", "indent", "}", "}">>],
     [name |-> "logging_reentrancy_04x",
      vuln_type |-> <<"R", "E", "E", "N", "T", "R", "A", "N", "C", "Y">>,
      min_version |-> <<"0", ".", "4", ".", "1", "1">>,
      max_version |-> <<"0", ".", "4", ".", "9", "9">>, injection_type |-> "coupled",
      var_types |-> <<"mapping", "addr">>, needs_addr_param |-> TRUE, needs_uint_param |-> FALSE,
      needs_state_modifying |-> FALSE, requires_payable_executor |-> FALSE,
      needs_payable_setter |-> FALSE, setter_needs_args |-> FALSE,
      state |-> <<"mapping(address => uint256) ", "{", "var_mapping", "}", ";", "\n", "address ", "{", "var_addr", "}", ";">>,
      code |-> NoText, setter |-> <<"{", "var_addr", "}", " = ", "{", "input_param", "}", ";">>,
      setter_condition |-> NoText,
      executor |-> <<"if (", "{", "var_mapping", "}", "[msg.sender] > 0) ", "{", "\n", "{", "indent", "}", "    uint256 _amount = ", "{", "var_mapping", "}", "[msg.sender];", "\n", "{", "indent", "}", "    if (msg.sender.call.value(_amount)()) ", "{", "\n", "{", "indent", "}", "        ", "{", "var_mapping", "}", "[msg.sender] = 0;", "\n", "{", "indent", "}", "        ", "{", "var_addr", "}", ".call(bytes4(keccak256(\"AddMessage(address,uint256,string)\")), msg.sender, _amount, \"Withdrawal\");", "\n", "{", "indent", "}", "    ", "}", "\n", "{", "indent", "}", "}">>],
     [name |-> "logging_reentrancy_modern",
      vuln_type |-> <<"R", "E", "E", "N", "T", "R", "A", "N", "C", "Y">>,
      min_version |-> <<"0", ".", "7", ".", "0">>,
      max_version |-> <<"0", ".", "9", ".", "9", "9">>, injection_type |-> "coupled",
      var_types |-> <<"mapping", "addr">>, needs_addr_param |-> TRUE, needs_uint_param |-> FALSE,
      needs_state_modifying |-> FALSE, requires_payable_executor |-> FALSE,
      needs_payable_setter |-> FALSE, setter_needs_args |-> FALSE,
      state |-> <<"mapping(address => uint256) ", "{", "var_mapping", "}", ";", "\n", "address ", "{", "var_addr", "}", ";">>,
      code |-> NoText, setter |-> <<"{", "var_addr", "}", " = ", "{", "input_param", "}", ";">>,
      setter_condition |-> NoText,
      executor |-> <<"if (", "{", "var_mapping", "}", "[msg.sender] > 0) ", "{", "\n", "{", "indent", "}", "    uint256 _amount = ", "{", "var_mapping", "}", "[msg.sender];", "\n", "{", "indent", "}", "    (bool success,) = payable(msg.sender).call", "{", "value: _amount", "}", "(\"\");", "\n", "{", "indent", "}", "    if (success) ", "{", "\n", "{", "indent", "}", "        ", "{", "var_mapping", "}", "[msg.sender] = 0;", "\n", "{", "indent", "}", "        (bool logSuccess,) = ", "{", "var_addr", "}", ".call(abi.encodeWithSignature(\"AddMessage(address,uint256,string)\", msg.sender, _amount, \"Withdrawal\"));", "\n", "{", "indent", "}", "        require(logSuccess);", "\n", "{", "indent", "}", "    ", "}", "\n", "{", "indent", "}", "}">>],
     [name |-> "min_balance_reentrancy",
      vuln_type |-> <<"R", "E", "E", "N", "T", "R", "A", "N", "C", "Y">>,
      min_version |-> <<"0", ".", "7", ".", "0">>,
      max_version |-> <<"0", ".", "9", ".", "9", "9">>, injection_type |-> "coupled",
      var_types |-> <<"mapping", "uint">>, needs_addr_param |-> FALSE, needs_uint_param |-> TRUE,
      needs_state_modifying |-> FALSE, requires_payable_executor |-> FALSE,
      needs_payable_setter |-> FALSE, setter_needs_args |-> FALSE,
      state |-> <<"mapping(address => uint256) ", "{", "var_mapping", "}", ";", "\n", "uint256 ", "{", "var_uint", "}", " = 0.1 ether;">>,
      code |-> NoText, setter |-> <<"{", "var_uint", "}", " = ", "{", "input_param", "}", ";">>,
      setter_condition |-> NoText,
      executor |-> <<"if (", "{", "var_mapping", "}", "[msg.sender] >= ", "{", "var_uint", "}", ") ", "{", "\n", "{", "indent", "}", "    uint256 withdrawAmount = ", "{", "var_mapping", "}", "[msg.sender];", "\n", "{", "indent", "}", "    (bool success,) = msg.sender.call", "{", "value: withdrawAmount", "}", "(\"\");", "\n", "{", "indent", "}", "    if (success) ", "{", "\n", "{", "indent", "}", "        ", "{", "var_mapping", "}", "[msg.sender] = 0;", "\n", "{", "indent", "}", "    ", "}", "\n", "{", "indent", "}", "}">>],
     [name |-> "cross_function_reentrancy_04x",
      vuln_type |-> <<"R", "E", "E", "N", "T", "R", "A", "N", "C", "Y">>,
      min_version |-> <<"0", ".", "4", ".", "0">>,
      max_version |-> <<"0", ".", "4", ".", "9", "9">>, injection_type |-> "coupled",
      var_types |-> <<"mapping">>, needs_addr_param |-> FALSE, needs_uint_param |-> FALSE,
      needs_state_modifying |-> FALSE, requires_payable_executor |-> FALSE,
      needs_payable_setter |-> TRUE, setter_needs_args |-> FALSE,
      state |-> <<"mapping(address => uint256) ", "{", "var_mapping", "}", ";", "\n", "{", "indent", "}", "function transfer_", "{", "var_mapping", "}", "(address _to, uint256 _amount) public ", "{", "\n", "{", "indent", "}", "    require(", "{", "var_mapping", "}", "[msg.sender] >= _amount);", "\n", "{", "indent", "}", "    ", "{", "var_mapping", "}", "[_to] += _amount;", "\n", "{", "indent", "}", "    ", "{", "var_mapping", "}", "[msg.sender] -= _amount;", "\n", "{", "indent", "}", "}">>,
      code |-> NoText, setter |-> <<"{", "var_mapping", "}", "[msg.sender] += msg.value;">>,
      setter_condition |-> NoText,
      executor |-> <<"uint256 _bal = ", "{", "var_mapping", "}", "[msg.sender];", "\n", "{", "indent", "}", "if (_bal > 0) ", "{", "\n", "{", "indent", "}", "    require(msg.sender.call.value(_bal)());", "\n", "{", "indent", "}", "    ", "{", "var_mapping", "}", "[msg.sender] = 0;", "\n", "{", "indent", "}", "}">>],
     [name |-> "cross_function_reentrancy_legacy",
      vuln_type |-> <<"R", "E", "E", "N", "T", "R", "A", "N", "C", "Y">>,
      min_version |-> <<"0", ".", "5", ".", "0">>,
      max_version |-> <<"0", ".", "6", ".", "9", "9">>, injection_type |-> "coupled",
      var_types |-> <<"mapping">>, needs_addr_param |-> FALSE, needs_uint_param |-> FALSE,
      needs_state_modifying |-> FALSE, requires_payable_executor |-> FALSE,
      needs_payable_setter |-> TRUE, setter_needs_args |-> FALSE,
      state |-> <<"mapping(address => uint256) ", "{", "var_mapping", "}", ";", "\n", "{", "indent", "}", "function transfer_", "{", "var_mapping", "}", "(address _to, uint256 _amount) public ", "{", "\n", "{", "indent", "}", "    require(", "{", "var_mapping", "}", "[msg.sender] >= _amount);", "\n", "{", "indent", "}", "    ", "{", "var_mapping", "}", "[_to] += _amount;", "\n", "{", "indent", "}", "    ", "{", "var_mapping", "}", "[msg.sender] -= _amount;", "\n", "{", "indent", "}", "}">>,
      code |-> NoText, setter |-> <<"{", "var_mapping", "}", "[msg.sender] += msg.value;">>,
      setter_condition |-> NoText,
      executor |-> <<"uint256 _bal = ", "{", "var_mapping", "}", "[msg.sender];", "\n", "{", "indent", "}", "if (_bal > 0) ", "{", "\n", "{", "indent", "}", "    (bool _ok,) = msg.sender.call.value(_bal)(\"\");", "\n", "{", "indent", "}", "    require(_ok);", "\n", "{", "indent", "}", "    ", "{", "var_mapping", "}", "[msg.sender] = 0;", "\n", "{", "indent", "}", "}">>],
     [name |-> "cross_function_reentrancy",
      vuln_type |-> <<"R", "E", "E", "N", "T", "R", "A", "N", "C", "Y">>,
      min_version |-> <<"0", ".", "7", ".", "0">>,
      max_version |-> <<"0", ".", "9", ".", "9", "9">>, injection_type |-> "coupled",
      var_types |-> <<"mapping">>, needs_addr_param |-> FALSE, needs_uint_param |-> FALSE,
      needs_state_modifying |-> FALSE, requires_payable_executor |-> FALSE,
      needs_payable_setter |-> TRUE, setter_needs_args |-> FALSE,
      state |-> <<"mapping(address => uint256) ", "{", "var_mapping", "}", ";", "\n", "{", "indent", "}", "function transfer_", "{", "var_mapping", "}", "(address _to, uint256 _amount) public ", "{", "\n", "{", "indent", "}", "    require(", "{", "var_mapping", "}", "[msg.sender] >= _amount);", "\n", "{", "indent", "}", "    ", "{", "var_mapping", "}", "[_to] += _amount;", "\n", "{", "indent", "}", "    ", "{", "var_mapping", "}", "[msg.sender] -= _amount;", "\n", "{", "indent", "}", "}">>,
      code |-> NoText, setter |-> <<"{", "var_mapping", "}", "[msg.sender] += msg.value;">>,
      setter_condition |-> NoText,
      executor |-> <<"uint256 _bal = ", "{", "var_mapping", "}", "[msg.sender];", "\n", "{", "indent", "}", "if (_bal > 0) ", "{", "\n", "{", "indent", "}", "    (bool _ok,) = msg.sender.call", "{", "value: _bal", "}", "(\"\");", "\n", "{", "indent", "}", "    require(_ok);", "\n", "{", "indent", "}", "    ", "{", "var_mapping", "}", "[msg.sender] = 0;", "\n", "{", "indent", "}", "}">>]
    >>

\* templates/coupled_injection.py: OTHER_COUPLED_TEMPLATES
OTHER_COUPLED_TEMPLATES ==
    <<
     [name |-> "lock_time_overflow", vuln_type |-> <<"O", "V", "E", "R", "F", "L", "O", "W">>,
      min_version |-> <<"0", ".", "4", ".", "1", "1">>,
      max_version |-> <<"0", ".", "7", ".", "9", "9">>, injection_type |-> "coupled",
      var_types |-> <<"time">>, needs_addr_param |-> FALSE, needs_uint_param |-> TRUE,
      needs_state_modifying |-> FALSE, requires_payable_executor |-> FALSE,
      needs_payable_setter |-> FALSE, setter_needs_args |-> FALSE,
      state |-> <<"mapping(address => uint256) ", "{", "var_time", "}", ";">>, code |-> NoText,
      setter |-> <<"{", "var_time", "}", "[msg.sender] += ", "{", "input_param", "}", ";">>,
      setter_condition |-> NoText,
      executor |-> <<"require(block.timestamp > ", "{", "var_time", "}", "[msg.sender]);">>],
     [name |-> "timestamp_winner", vuln_type |-> <<"T", "I", "M", "E", "S", "T", "A", "M", "P">>,
      min_version |-> <<"0", ".", "4", ".", "1", "1">>,
      max_version |-> <<"0", ".", "9", ".", "9", "9">>, injection_type |-> "coupled",
      var_types |-> <<"addr">>, needs_addr_param |-> FALSE, needs_uint_param |-> TRUE,
      needs_state_modifying |-> FALSE, requires_payable_executor |-> FALSE,
      needs_payable_setter |-> FALSE, setter_needs_args |-> FALSE,
      state |-> <<"address ", "{", "var_addr", "}", ";">>, code |-> NoText,
      setter |-> <<"if (", "{", "input_param", "}", " + (5 * 1 days) == block.timestamp) ", "{", "\n", "{", "indent", "}", "    ", "{", "var_addr", "}", " = msg.sender;", "\n", "{", "indent", "}", "}">>,
      setter_condition |-> NoText,
      executor |-> <<"require(msg.sender == ", "{", "var_addr", "}", ");">>]
    >>

(***************************************************************************)
(* The name pools of templates/point_injection.py (POINT_) and             *)
(* templates/coupled_injection.py (COUPLED_).                              *)
(***************************************************************************)
POINT_UINT_VAR_NAMES ==
    <<
      "amount", "value", "balance", "total", "count", "limit", "threshold", "allocation",
      "deposit", "fee", "reward" >>

POINT_ADDR_VAR_NAMES ==
    <<
      "recipient", "sender", "account", "target", "destination", "beneficiary", "payee",
      "delegate", "handler", "controller" >>

POINT_MAPPING_VAR_NAMES ==
    <<
      "balances", "deposits", "allocations", "credits", "amounts", "userBalances",
      "accountValues", "pendingPayouts", "reserves" >>

POINT_BOOL_VAR_NAMES ==
    <<
      "isActive", "isEnabled", "isValid", "isProcessed", "isComplete", "hasExecuted",
      "canWithdraw", "isAuthorized", "isLocked" >>

POINT_TIME_VAR_NAMES ==
    <<
      "lockTime", "releaseTime", "expirationTime", "deadline", "cooldownEnd",
      "unlockTime", "scheduledTime", "activeUntil" >>

COUPLED_REALISTIC_PREFIXES ==
    <<
      "pending", "current", "last", "next", "active", "primary", "default", "registered",
      "approved", "verified", "authorized", "delegated" >>

COUPLED_REALISTIC_SUFFIXES ==
    <<
      "Recipient", "Account", "Address", "Wallet", "Handler", "Manager", "Controller",
      "Target", "Destination", "Payee", "Holder", "Owner" >>

COUPLED_AMOUNT_NAMES ==
    <<
      "pendingAmount", "currentBalance", "reservedFunds", "allocatedValue",
      "depositAmount", "withdrawalLimit", "transferAmount", "payoutValue" >>

COUPLED_TIME_NAMES ==
    <<
      "releaseTime", "lockPeriod", "expirationTime", "activationTime", "cooldownEnd",
      "nextAllowedTime", "scheduledTime", "unlockTimestamp" >>

COUPLED_ARRAY_NAMES ==
    <<
      "participants", "members", "registeredUsers", "activeAccounts",
      "pendingRecipients", "queuedAddresses", "enrolledUsers", "subscribers" >>

COUPLED_MAPPING_NAMES ==
    <<
      "balances", "deposits", "allocations", "contributions", "pendingPayouts",
      "userCredits", "accountValues", "reservedAmounts" >>

COUPLED_BOOL_VAR_NAMES ==
    <<
      "isActive", "isEnabled", "isValid", "isProcessed", "isComplete", "hasExecuted",
      "canWithdraw", "isAuthorized", "isLocked" >>

COUPLED_UINT_VAR_NAMES ==
    <<
      "amount", "value", "balance", "total", "count", "limit", "threshold", "allocation",
      "deposit", "fee", "reward" >>

(***************************************************************************)
(* Name generation (templates/point_injection.py and                       *)
(* templates/coupled_injection.py).  A random draw is a choice among its   *)
(* possible values, so a generator is the set of names it can return and   *)
(* generate_var_names is the set of dicts it can return.  random.choice    *)
(* draws among the first PoolLimit names of a pool and random.randint      *)
(* among 1..MaxSuffix.                                                     *)
(***************************************************************************)
PoolLimit == 2
MaxSuffix == 2

\* generate_unique_name(..., max_attempts=50)
max_attempts == 50

\* the upper end of random.randint(1, 999)
suffix_max == 999

\* random.choice(pool)
Choices(pool) == {pool[i] : i \in 1..Min(PoolLimit, Len(pool))}

\* base_name + str(random.randint(1, 999))
Suffixed(generator_func) ==
    {b \o ToString(k) : b \in generator_func, k \in 1..Min(MaxSuffix, suffix_max)}

\* templates/point_injection.py: generate_unique_name.  An attempt returns a
\* drawn name that is not in existing_names; the suffix branch is reached
\* when every one of the max_attempts draws was in existing_names, and its
\* result is returned without a membership test.
point_generate_unique_name(generator_func, existing_names) ==
    {n \in generator_func : max_attempts > 0 /\ n \notin existing_names}
    \cup (IF max_attempts = 0 \/ \E n \in generator_func : n \in existing_names
          THEN Suffixed(generator_func) ELSE {})

\* templates/coupled_injection.py: generate_unique_name
coupled_generate_unique_name(generator_func, existing_names) ==
    {n \in generator_func : max_attempts > 0 /\ n \notin existing_names}
    \cup (IF max_attempts = 0 \/ \E n \in generator_func : n \in existing_names
          THEN Suffixed(generator_func) ELSE {})

\* the kinds in the order generate_var_names tests them, with their placeholder
POINT_KINDS ==
    << <<"addr", "var_addr">>, <<"uint", "var_uint">>, <<"mapping", "var_mapping">>,
       <<"bool", "var_bool">>, <<"time", "var_time">> >>

\* templates/point_injection.py: the get_random_*_var generator of a kind
\* (context "generic"), as the set of names it can draw
PointGenerator(kind) ==
    CASE kind = "addr" -> Choices(POINT_ADDR_VAR_NAMES)
      [] kind = "uint" -> Choices(POINT_UINT_VAR_NAMES)
      [] kind = "mapping" -> Choices(POINT_MAPPING_VAR_NAMES)
      [] kind = "bool" -> Choices(POINT_BOOL_VAR_NAMES)
      [] kind = "time" -> Choices(POINT_TIME_VAR_NAMES)

COUPLED_KINDS ==
    << <<"addr", "var_addr">>, <<"time", "var_time">>, <<"amt", "var_amt">>,
       <<"array", "var_array">>, <<"mapping", "var_mapping">>, <<"bool", "var_bool">>,
       <<"uint", "var_uint">> >>

\* templates/coupled_injection.py: the get_random_*_var generator of a kind;
\* an address name is a drawn prefix followed by a drawn suffix
CoupledGenerator(kind) ==
    CASE kind = "addr" -> {p \o s : p \in Choices(COUPLED_REALISTIC_PREFIXES),
                                    s \in Choices(COUPLED_REALISTIC_SUFFIXES)}
      [] kind = "time" -> Choices(COUPLED_TIME_NAMES)
      [] kind = "amt" -> Choices(COUPLED_AMOUNT_NAMES)
      [] kind = "array" -> Choices(COUPLED_ARRAY_NAMES)
      [] kind = "mapping" -> Choices(COUPLED_MAPPING_NAMES)
      [] kind = "bool" -> Choices(COUPLED_BOOL_VAR_NAMES)
      [] kind = "uint" -> Choices(COUPLED_UINT_VAR_NAMES)

\* templates/point_injection.py: generate_var_names from the k-th kind on;
\* names is the dict built so far, as <<placeholder, name>> pairs
RECURSIVE PointNamesFrom(_, _, _, _)
PointNamesFrom(k, var_types, used, names) ==
    IF k > Len(POINT_KINDS) THEN {names}
    ELSE IF POINT_KINDS[k][1] \in Range(var_types)
         THEN UNION {PointNamesFrom(k + 1, var_types, used \cup {n},
                                    Append(names, <<POINT_KINDS[k][2], n>>)) :
                        n \in point_generate_unique_name(PointGenerator(POINT_KINDS[k][1]), used)}
         ELSE PointNamesFrom(k + 1, var_types, used, names)

point_generate_var_names(var_types, existing_names) ==
    PointNamesFrom(1, var_types, existing_names, <<>>)

\* templates/coupled_injection.py: generate_var_names
RECURSIVE CoupledNamesFrom(_, _, _, _)
CoupledNamesFrom(k, var_types, used, names) ==
    IF k > Len(COUPLED_KINDS) THEN {names}
    ELSE IF COUPLED_KINDS[k][1] \in Range(var_types)
         THEN UNION {CoupledNamesFrom(k + 1, var_types, used \cup {n},
                                      Append(names, <<COUPLED_KINDS[k][2], n>>)) :
                        n \in coupled_generate_unique_name(CoupledGenerator(COUPLED_KINDS[k][1]), used)}
         ELSE CoupledNamesFrom(k + 1, var_types, used, names)

coupled_generate_var_names(var_types, existing_names) ==
    CoupledNamesFrom(1, var_types, existing_names, <<>>)

\* utils.py: select_one, as the set of items it can return
select_one(items, randomize_flag) ==
    IF items = <<>> THEN {}
    ELSE IF randomize_flag THEN Range(items) ELSE {items[1]}

(***************************************************************************)
(* Trees.  A node of the compiler's legacy AST is a record with the fields *)
(* name (the node kind), id, src, and optionally attributes and children,  *)
(* as the dicts that ast_helpers.py and models.py read with .get().        *)
(***************************************************************************)
\* dict.get(key, default)
Get(d, key, default) == IF key \in DOMAIN d THEN d[key] ELSE default

Children(node) == Get(node, "children", <<>>)
Attributes(node) == Get(node, "attributes", <<>>)

\* ast_helpers.py: traverse_ast, as the sequence of nodes in visiting order
RECURSIVE traverse_ast(_)
traverse_ast(node) ==
    <<node>> \o Concat([i \in 1..Len(Children(node)) |-> traverse_ast(Children(node)[i])])

\* a variant that yields the nodes last first
FindNodesLastFirst(tree, node_name) ==
    LET hits == SelectSeq(traverse_ast(tree), LAMBDA n : n.name = node_name)
    IN [i \in 1..Len(hits) |-> hits[Len(hits) + 1 - i]]

\* ast_helpers.py: find_nodes_by_name
find_nodes_by_name(tree, node_name) ==
    SelectSeq(traverse_ast(tree), LAMBDA n : n.name = node_name)

NoNode == [name |-> "None"]

\* ast_helpers.py: find_node_by_id: the first node in visiting order
find_node_by_id(tree, target_id) ==
    LET hits == SelectSeq(traverse_ast(tree), LAMBDA n : "id" \in DOMAIN n /\ n.id = target_id)
    IN IF hits = <<>> THEN NoNode ELSE Head(hits)

(***************************************************************************)
(* str.lower() and the substring test, on sequences of characters.         *)
(***************************************************************************)
UpperLetters ==
    <<"A", "B", "C", "D", "E", "F", "G", "H", "I", "J", "K", "L", "M",
      "N", "O", "P", "Q", "R", "S", "T", "U", "V", "W", "X", "Y", "Z">>

LowerLetters ==
    <<"a", "b", "c", "d", "e", "f", "g", "h", "i", "j", "k", "l", "m",
      "n", "o", "p", "q", "r", "s", "t", "u", "v", "w", "x", "y", "z">>

LowerChar(c) ==
    IF \E k \in 1..Len(UpperLetters) : UpperLetters[k] = c
    THEN LowerLetters[CHOOSE k \in 1..Len(UpperLetters) : UpperLetters[k] = c]
    ELSE c

UpperChar(c) ==
    IF \E k \in 1..Len(LowerLetters) : LowerLetters[k] = c
    THEN UpperLetters[CHOOSE k \in 1..Len(LowerLetters) : LowerLetters[k] = c]
    ELSE c

\* a variant that keeps the case
SameCase(s) == s

lower(s) == [i \in 1..Len(s) |-> LowerChar(s[i])]
upper(s) == [i \in 1..Len(s) |-> UpperChar(s[i])]

ADDRESS == <<"a", "d", "d", "r", "e", "s", "s">>
UINT == <<"u", "i", "n", "t">>

(***************************************************************************)
(* models.py: FunctionInfo and ContractInfo.                               *)
(***************************************************************************)
NoFunction == [is_none |-> TRUE]

\* a variant that takes the parameters of every ParameterList child
ParamsOfEveryList(node) ==
    LET lists == SelectSeq(Children(node), LAMBDA c : c.name = "ParameterList")
        decls == SelectSeq(Concat([i \in 1..Len(lists) |-> Children(lists[i])]),
                           LAMBDA p : p.name = "VariableDeclaration")
    IN [i \in 1..Len(decls) |->
           [name |-> Get(Attributes(decls[i]), "name", None),
            type |-> Get(Attributes(decls[i]), "type", <<>>)]]

\* the parameters of the first ParameterList child
FunctionParams(node) ==
    LET lists == SelectSeq(Children(node), LAMBDA c : c.name = "ParameterList")
    IN IF lists = <<>> THEN <<>>
       ELSE LET decls == SelectSeq(Children(Head(lists)),
                                   LAMBDA p : p.name = "VariableDeclaration")
            IN [i \in 1..Len(decls) |->
                   [name |-> Get(Attributes(decls[i]), "name", None),
                    type |-> Get(Attributes(decls[i]), "type", <<>>)]]

\* FunctionInfo.from_ast_node
FunctionInfo_from_ast_node(node) ==
    IF node.name # "FunctionDefinition" THEN NoFunction
    ELSE LET attrs == Attributes(node)
             func_name == Get(attrs, "name", "")
             visibility == Get(attrs, "visibility", "")
             state_mutability == Get(attrs, "stateMutability", "")
             is_constructor == Get(attrs, "isConstructor", FALSE)
             params == FunctionParams(node)
             blocks == SelectSeq(Children(node), LAMBDA c : c.name = "Block")
         IN IF is_constructor \/ func_name = "" THEN NoFunction
            ELSE IF blocks = <<>> THEN NoFunction
            ELSE [node |-> node,
                  id |-> Get(node, "id", None),
                  name |-> func_name,
                  src |-> Get(node, "src", <<>>),
                  body_src |-> Get(Head(blocks), "src", <<>>),
                  visibility |-> visibility,
                  state_mutability |-> state_mutability,
                  is_payable |-> (state_mutability = "payable"),
                  params |-> params,
                  has_params |-> (Len(params) > 0)]

is_public_or_external(f) == f.visibility \in {"public", "external"}

is_state_modifying(f) == f.state_mutability \notin {"view", "pure", "constant"}

\* FunctionInfo.get_first_param_of_type: type_substr in param["type"]
get_first_param_of_type(f, type_substr) ==
    LET hits == SelectSeq(f.params, LAMBDA p : Contains(p.type, type_substr))
    IN IF hits = <<>> THEN None ELSE Head(hits).name

get_first_param(f) == IF f.params # <<>> THEN f.params[1].name ELSE None

\* ContractInfo.from_ast_node
ContractInfo_from_ast_node(node) ==
    [node |-> node,
     id |-> Get(node, "id", None),
     name |-> Get(Attributes(node), "name", ""),
     src |-> Get(node, "src", <<>>),
     contract_kind |-> Get(Attributes(node), "contractKind", "contract")]

is_concrete_contract(c) == c.contract_kind \notin {"interface", "library"}

(***************************************************************************)
(* ast_helpers.py: the discovery routines.                                 *)
(***************************************************************************)
\* find_state_variables: the <<id, name>> pairs of the state variables
find_state_variables(tree) ==
    LET decls == SelectSeq(traverse_ast(tree),
                     LAMBDA n : /\ n.name = "VariableDeclaration"
                                /\ Get(Attributes(n), "stateVariable", FALSE) = TRUE
                                /\ "id" \in DOMAIN n
                                /\ Truthy(Get(Attributes(n), "name", None)))
    IN [i \in 1..Len(decls) |-> <<decls[i].id, Attributes(decls[i]).name>>]

\* state_vars[ref_id]: a later declaration of the same id replaces an earlier one
StateVarName(state_vars, ref_id) ==
    state_vars[CHOOSE i \in 1..Len(state_vars) :
                  /\ state_vars[i][1] = ref_id
                  /\ \A j \in (i + 1)..Len(state_vars) : state_vars[j][1] # ref_id][2]

DeclaredKinds ==
    {"VariableDeclaration", "FunctionDefinition", "EventDefinition", "ModifierDefinition",
     "StructDefinition", "EnumDefinition", "ContractDefinition"}

\* extract_all_identifiers
extract_all_identifiers(tree) ==
    LET nodes == traverse_ast(tree)
    IN {Attributes(nodes[i]).name : i \in
           {k \in 1..Len(nodes) :
               /\ nodes[k].name \in DeclaredKinds \cup {"Identifier"}
               /\ Truthy(Get(Attributes(nodes[k]), "name", None))}}

\* find_contracts
find_contracts(tree) ==
    LET nodes == find_nodes_by_name(tree, "ContractDefinition")
    IN [i \in 1..Len(nodes) |-> ContractInfo_from_ast_node(nodes[i])]

\* find_functions_in_contract: the direct children that give a FunctionInfo
find_functions_in_contract(contract_node) ==
    LET infos == [i \in 1..Len(Children(contract_node)) |->
                     FunctionInfo_from_ast_node(Children(contract_node)[i])]
    IN SelectSeq(infos, LAMBDA f : f # NoFunction)

\* does the node carry a referencedDeclaration that is a state variable
RefersToStateVar(node, state_vars) ==
    /\ "referencedDeclaration" \in DOMAIN Attributes(node)
    /\ \E i \in 1..Len(state_vars) :
          state_vars[i][1] = Attributes(node).referencedDeclaration

\* check_assignment_target: the state variable an assignment writes, or None
check_assignment_target(assignment_node, state_vars) ==
    LET children == Children(assignment_node)
    IN IF children = <<>> THEN None
       ELSE LET lhs == children[1]
                lhs_children == Children(lhs)
            IN IF lhs.name = "Identifier" /\ RefersToStateVar(lhs, state_vars)
               THEN StateVarName(state_vars, Attributes(lhs).referencedDeclaration)
               ELSE IF /\ lhs.name \in {"IndexAccess", "MemberAccess"}
                       /\ lhs_children # <<>>
                       /\ lhs_children[1].name = "Identifier"
                       /\ RefersToStateVar(lhs_children[1], state_vars)
                    THEN StateVarName(state_vars,
                                      Attributes(lhs_children[1]).referencedDeclaration)
                    ELSE None

\* find_state_variable_assignments: <<node, state variable>> pairs
find_state_variable_assignments(node, state_vars) ==
    LET asgs == SelectSeq(traverse_ast(node),
                    LAMBDA n : /\ n.name = "Assignment"
                               /\ Truthy(check_assignment_target(n, state_vars)))
    IN [i \in 1..Len(asgs) |-> <<asgs[i], check_assignment_target(asgs[i], state_vars)>>]

\* models.py: InjectionLocation
InjectionLocation(func_info, assignment_node, state_var_name) ==
    [function_id |-> func_info.id,
     function_name |-> func_info.name,
     function_src |-> func_info.src,
     assignment_id |-> Get(assignment_node, "id", None),
     assignment_src |-> Get(assignment_node, "src", None),
     state_variable |-> state_var_name]

\* find_reentrancy_locations
find_reentrancy_locations(tree) ==
    LET state_vars == find_state_variables(tree)
        func_nodes == find_nodes_by_name(tree, "FunctionDefinition")
        PerFunction(func_node) ==
            LET func_info == FunctionInfo_from_ast_node(func_node)
            IN IF func_info = NoFunction THEN <<>>
               ELSE IF ~is_public_or_external(func_info) THEN <<>>
               ELSE IF ~is_state_modifying(func_info) THEN <<>>
               ELSE LET assignments == find_state_variable_assignments(func_node, state_vars)
                    IN [i \in 1..Len(assignments) |->
                           InjectionLocation(func_info, assignments[i][1], assignments[i][2])]
    IN Concat([i \in 1..Len(func_nodes) |-> PerFunction(func_nodes[i])])

has_address_param(f) == \E i \in 1..Len(f.params) : Contains(lower(f.params[i].type), ADDRESS)
has_uint_param(f) == \E i \in 1..Len(f.params) : Contains(lower(f.params[i].type), UINT)

\* the location dict of the general finder
PointLocation(contract_info, func_info) ==
    [contract |-> contract_info,
     function |-> func_info,
     has_params |-> func_info.has_params,
     has_address_param |-> has_address_param(func_info),
     has_uint_param |-> has_uint_param(func_info),
     is_payable |-> func_info.is_payable,
     is_state_modifying |-> is_state_modifying(func_info)]

\* a variant that takes the functions of every contract definition
FindPointInEveryDefinition(tree) ==
    LET contracts == find_contracts(tree)
        PerContract(contract_info) ==
            LET functions == SelectSeq(find_functions_in_contract(contract_info.node),
                                 LAMBDA f : is_public_or_external(f) /\ f.body_src # <<>>)
            IN [i \in 1..Len(functions) |-> PointLocation(contract_info, functions[i])]
    IN Concat([i \in 1..Len(contracts) |-> PerContract(contracts[i])])

\* find_point_injection_locations
find_point_injection_locations(tree) ==
    LET contracts == SelectSeq(find_contracts(tree), is_concrete_contract)
        PerContract(contract_info) ==
            LET functions == SelectSeq(find_functions_in_contract(contract_info.node),
                                 LAMBDA f : is_public_or_external(f) /\ f.body_src # <<>>)
            IN [i \in 1..Len(functions) |-> PointLocation(contract_info, functions[i])]
    IN Concat([i \in 1..Len(contracts) |-> PerContract(contracts[i])])

(***************************************************************************)
(* payload_generators.py.  A dict of templates is the sequence of its      *)
(* records in insertion order; the key of a record is its name field.      *)
(***************************************************************************)
\* templates/point_injection.py: ALL_POINT_TEMPLATES
ALL_POINT_TEMPLATES ==
    OVERFLOW_TEMPLATES \o BATCH_TRANSFER_OVERFLOW \o TX_ORIGIN_TEMPLATES
    \o UNCHECKED_SEND_TEMPLATES \o UNHANDLED_CALL_TEMPLATES
    \o SelectSeq(TIMESTAMP_TEMPLATES, LAMBDA t : t.injection_type # "coupled")

\* templates/coupled_injection.py: ALL_COUPLED_TEMPLATES
ALL_COUPLED_TEMPLATES ==
    CROSS_FUNCTION_TEMPLATES \o REENTRANCY_COUPLED_TEMPLATES \o OTHER_COUPLED_TEMPLATES

POINT_VULN_TYPES ==
    << <<"r", "e", "e", "n", "t", "r", "a", "n", "c", "y">>,
      <<"o", "v", "e", "r", "f", "l", "o", "w">>,
      <<"u", "n", "d", "e", "r", "f", "l", "o", "w">>,
      <<"t", "x", "_", "o", "r", "i", "g", "i", "n">>,
      <<"u", "n", "c", "h", "e", "c", "k", "e", "d", "_", "s", "e", "n", "d">>,
      <<"u", "n", "h", "a", "n", "d", "l", "e", "d", "_", "e", "x", "c", "e", "p", "t", "i", "o", "n">>,
      <<"t", "i", "m", "e", "s", "t", "a", "m", "p">> >>

\* name in templates
HasTemplate(templates, template_name) ==
    \E i \in 1..Len(templates) : templates[i].name = template_name

\* templates[name]
TemplateNamed(templates, template_name) ==
    templates[CHOOSE i \in 1..Len(templates) : templates[i].name = template_name]

\* a variant that keeps every template whatever the version
GetWhateverVersion(templates, version) == templates

\* PayloadGenerator._get_compatible_templates
get_compatible(templates, version) ==
    SelectSeq(templates, LAMBDA v : is_version_compatible(version, v.min_version, v.max_version))

\* PointPayloadGenerator._get_templates_for_type
get_templates_for_type(vuln_type) ==
    LET vuln_type_upper == upper(vuln_type)
    IN IF vuln_type_upper \in {<<"O", "V", "E", "R", "F", "L", "O", "W">>,
                               <<"U", "N", "D", "E", "R", "F", "L", "O", "W">>}
       THEN SelectSeq(OVERFLOW_TEMPLATES \o BATCH_TRANSFER_OVERFLOW,
                      LAMBDA v : v.vuln_type = vuln_type_upper /\ v.injection_type = "point")
       ELSE IF vuln_type_upper = <<"T", "X", "_", "O", "R", "I", "G", "I", "N">>
       THEN TX_ORIGIN_TEMPLATES
       ELSE IF vuln_type_upper = <<"U", "N", "C", "H", "E", "C", "K", "E", "D", "_", "S", "E", "N", "D">>
       THEN UNCHECKED_SEND_TEMPLATES
       ELSE IF vuln_type_upper \in
                 {<<"U", "N", "H", "A", "N", "D", "L", "E", "D", "_", "E", "X", "C", "E", "P", "T", "I", "O", "N">>,
                  <<"U", "N", "H", "A", "N", "D", "L", "E", "D", "_", "C", "A", "L", "L">>}
       THEN UNHANDLED_CALL_TEMPLATES
       ELSE IF vuln_type_upper = <<"T", "I", "M", "E", "S", "T", "A", "M", "P">>
       THEN SelectSeq(TIMESTAMP_TEMPLATES, LAMBDA v : v.injection_type = "point")
       ELSE IF vuln_type_upper = <<"R", "E", "E", "N", "T", "R", "A", "N", "C", "Y">>
       THEN REENTRANCY_TEMPLATES
       ELSE ALL_POINT_TEMPLATES

\* PointPayloadGenerator.get_compatible_templates
point_get_compatible_templates(vuln_type, version) ==
    get_compatible(IF TruthyText(vuln_type) THEN get_templates_for_type(vuln_type)
                   ELSE ALL_POINT_TEMPLATES,
                   version)

\* a variant without the rule for a template that declares state
CheckWithoutStateRule(template, location) ==
    /\ template.needs_addr_param => Get(location, "has_address_param", FALSE)
    /\ template.needs_uint_param => Get(location, "has_uint_param", FALSE)
    /\ template.needs_state_modifying => Get(location, "is_state_modifying", TRUE)

\* PointPayloadGenerator.check_template_requirements
check_template_requirements(template, location) ==
    /\ template.needs_addr_param => Get(location, "has_address_param", FALSE)
    /\ template.needs_uint_param => Get(location, "has_uint_param", FALSE)
    /\ template.needs_state_modifying => Get(location, "is_state_modifying", TRUE)
    /\ template.state # NoText => Get(location, "is_state_modifying", TRUE)

\* x or default, for an optional string
OrElse(x, default) == IF Truthy(x) THEN x ELSE default

\* the result of PointPayloadGenerator.generate when it raises ValueError
GenerateRaises(why) ==
    [raised |-> TRUE, reason |-> why, state_payload |-> NoText, code_payload |-> NoText,
     selected_name |-> None, actual_vuln_type |-> NoText, var_types |-> <<>>,
     var_names |-> <<>>]

\* the payloads of PointPayloadGenerator.generate for a selected template and
\* generated names (lines 187-212)
GeneratePayloads(template, var_names, location, indentation, state_indentation) ==
    LET func == location.function
        input_param == OrElse(get_first_param_of_type(func, ADDRESS),
                              OrElse(get_first_param(func), "msg.sender"))
        uint_param == OrElse(get_first_param_of_type(func, UINT), "1")
        state_code == apply_var_names(template.state, var_names, input_param, state_indentation)
        code_template == replace(IF template.code = NoText THEN <<>> ELSE template.code,
                                 Placeholder("uint_param"), <<uint_param>>)
        code == apply_var_names(code_template, var_names, input_param, indentation)
    IN [raised |-> FALSE, reason |-> None,
        state_payload |-> IF TruthyText(template.state)
                          THEN <<"\n">> \o state_indentation \o state_code \o <<"\n">>
                          ELSE NoText,
        code_payload |-> <<"\n">> \o indentation \o code \o <<"\n">> \o indentation,
        selected_name |-> template.name,
        actual_vuln_type |-> template.vuln_type,
        var_types |-> template.var_types,
        var_names |-> var_names]

\* PointPayloadGenerator.generate: the set of its possible results
generate(location, vuln_type, template_name, existing_names, indentation, state_indentation, version, randomize_flag) ==
    LET compatible == point_get_compatible_templates(vuln_type, version)
        filtered == SelectSeq(compatible, LAMBDA v : check_template_requirements(v, location))
        templates ==
            IF Truthy(template_name) /\ HasTemplate(filtered, template_name)
            THEN {TemplateNamed(filtered, template_name)}
            ELSE select_one(filtered, randomize_flag)
    IN IF compatible = <<>> THEN {GenerateRaises("no compatible templates")}
       ELSE IF filtered = <<>> THEN {GenerateRaises("no compatible templates for location")}
       ELSE IF /\ Truthy(template_name)
               /\ ~HasTemplate(filtered, template_name)
               /\ HasTemplate(compatible, template_name)
            THEN {GenerateRaises("template incompatible with function")}
       ELSE {GeneratePayloads(template, var_names, location, indentation, state_indentation) :
                <<template, var_names>> \in
                    UNION {{<<t, n>> : n \in point_generate_var_names(t.var_types, existing_names)} :
                              t \in templates}}

\* CrossFunctionPayloadGenerator._apply_vars: apply_var_names with its defaults
coupled_apply_vars(code, var_names) ==
    coupled_apply_var_names(code, var_names, None, DefaultIndent)

\* CrossFunctionPayloadGenerator.generate_state_payload; raised when format raises
generate_state_payload(template, var_names, indentation) ==
    LET state_code == format(coupled_apply_vars(template.state, var_names),
                             [indent |-> indentation])
    IN [raised |-> state_code.raised,
        text |-> <<"\n">> \o indentation \o state_code.text \o <<"\n">>]

\* CrossFunctionPayloadGenerator.generate_setter_payload
generate_setter_payload(template, var_names, input_param, indentation) ==
    LET setter_code == format(coupled_apply_vars(IF TruthyText(template.setter_condition)
                                                 THEN template.setter_condition
                                                 ELSE template.setter,
                                                 var_names),
                              [input_param |-> <<input_param>>, indent |-> indentation])
    IN [raised |-> setter_code.raised,
        text |-> <<"\n">> \o indentation \o setter_code.text \o <<"\n">> \o indentation]

\* CrossFunctionPayloadGenerator.generate_executor_payload (benign_complexity = 0)
generate_executor_payload(template, var_names, indentation) ==
    LET executor_code == format(coupled_apply_vars(template.executor, var_names),
                                [indent |-> indentation])
    IN [raised |-> executor_code.raised,
        text |-> <<"\n">> \o indentation \o executor_code.text \o <<"\n">> \o indentation]

\* CrossFunctionPayloadGenerator.get_compatible_templates
coupled_get_compatible_templates(version) == get_compatible(ALL_COUPLED_TEMPLATES, version)

(***************************************************************************)
(* injectors.py: PointInjector and CoupledInjector.  inject is modelled up *)
(* to the call of _apply_payloads as the set of its possible outcomes (one *)
(* per result of the random draws); an outcome either returns False,       *)
(* raises, or hands a payload list to _apply_payloads.                     *)
(***************************************************************************)
NoTemplate == [name |-> None]

\* the part of a template that the properties read
TemplateSummary(t) == [name |-> t.name, vuln_type |-> t.vuln_type, var_types |-> t.var_types]
NoLocation == [is_none |-> TRUE]

\* an info record without the reference to its tree node
WithoutNode(info) == [k \in DOMAIN info \ {"node"} |-> info[k]]

ReturnsFalse(why, md) ==
    [kind |-> "False", reason |-> why, payloads |-> <<>>, metadata |-> md,
     template |-> NoTemplate, location |-> NoLocation, existing_names |-> {}, var_names |-> <<>>]

Raises(why, md) ==
    [kind |-> "Raised", reason |-> why, payloads |-> <<>>, metadata |-> md,
     template |-> NoTemplate, location |-> NoLocation, existing_names |-> {}, var_names |-> <<>>]

Applies(ps, md, tmpl, loc, existing, names) ==
    [kind |-> "apply", reason |-> None, payloads |-> ps, metadata |-> md,
     template |-> tmpl, location |-> loc, existing_names |-> existing, var_names |-> names]

\* _get_function_body_offset: start + 1, raising what parse_src_location raises
get_function_body_offset(func) ==
    LET loc == parse_src_location(func.body_src)
    IN [raised |-> loc.raised, value |-> loc.start + 1]

\* _get_contract_body_offset
get_contract_body_offset(buf, contract) ==
    LET loc == parse_src_location(contract.src)
    IN [raised |-> loc.raised, value |-> find_brace_offset(buf, loc.start, loc.length)]

\* the location dict PointInjector.find_locations builds for the reentrancy class
ReentrancyLocation(parent_contract, func_info, loc) ==
    [contract |-> parent_contract,
     function |-> func_info,
     has_params |-> func_info.has_params,
     has_address_param |-> has_address_param(func_info),
     has_uint_param |-> has_uint_param(func_info),
     is_payable |-> func_info.is_payable,
     is_state_modifying |-> is_state_modifying(func_info),
     assignment_src |-> loc.assignment_src,
     state_variable |-> loc.state_variable]

\* PointInjector.find_locations
PointInjector_find_locations(tree, vuln_type) ==
    IF TruthyText(vuln_type) /\ lower(vuln_type) = <<"r", "e", "e", "n", "t", "r", "a", "n", "c", "y">>
    THEN LET reentrancy_locs == find_reentrancy_locations(tree)
             PerLocation(loc) ==
                 LET func_node == find_node_by_id(tree, loc.function_id)
                     func_info == FunctionInfo_from_ast_node(func_node)
                     parents == SelectSeq(find_contracts(tree),
                                    LAMBDA c : \E f \in Range(find_functions_in_contract(c.node)) :
                                                  f.id = func_info.id)
                 IN IF func_node = NoNode THEN <<>>
                    ELSE IF func_info = NoFunction THEN <<>>
                    ELSE IF parents = <<>> THEN <<>>
                    ELSE <<ReentrancyLocation(Head(parents), func_info, loc)>>
         IN Concat([i \in 1..Len(reentrancy_locs) |-> PerLocation(reentrancy_locs[i])])
    ELSE find_point_injection_locations(tree)

\* the part of a selected location that the properties read
PointSelected(selected) ==
    [contract |-> WithoutNode(selected.contract),
     function |-> WithoutNode(selected.function),
     has_address_param |-> selected.has_address_param,
     has_uint_param |-> selected.has_uint_param,
     is_state_modifying |-> selected.is_state_modifying,
     has_assignment |-> "state_variable" \in DOMAIN selected]

\* PointInjector.inject, lines 221-275: generate, the metadata record, the payloads
PointBuild(buf, md, a, version, selected, vuln_type, existing, func_offset, contract_offset, g) ==
    IF g.raised THEN ReturnsFalse(g.reason, md)
    ELSE LET md1 == IF a.save_metadata
                    THEN InjectionMetadata(a.source_path, a.output_path,
                                           lower(g.actual_vuln_type), "point",
                                           g.selected_name, version)
                    ELSE md
             state_payloads ==
                 IF TruthyText(g.state_payload)
                 THEN <<InjectionPayload(contract_offset, g.state_payload, "state")>>
                 ELSE <<>>
         IN IF TruthyText(g.state_payload) /\ contract_offset = -1
            THEN ReturnsFalse("could not find contract body offset", md1)
            ELSE IF func_offset = -1
            THEN ReturnsFalse("could not find function body offset", md1)
            ELSE Applies(state_payloads
                         \o <<InjectionPayload(func_offset, g.code_payload, "vulnerable_code")>>,
                         md1,
                         [name |-> g.selected_name, vuln_type |-> g.actual_vuln_type,
                          var_types |-> g.var_types],
                         PointSelected(selected), existing, g.var_names)

\* PointInjector.inject, lines 185-233, for the selected location
PointAtLocation(buf, tree, md, a, version, randomize_flag, selected, vuln_type0) ==
    LET identifiers == extract_all_identifiers(tree)
        func_offset == get_function_body_offset(selected.function)
        contract_offset == get_contract_body_offset(buf, selected.contract)
        func_indent == detect_indentation(buf, func_offset.value)
        state_indent == detect_indentation(buf, contract_offset.value)
        available_types ==
            SelectSeq(POINT_VULN_TYPES,
                LAMBDA vt : \E k \in 1..Len(point_get_compatible_templates(vt, version)) :
                    check_template_requirements(point_get_compatible_templates(vt, version)[k],
                                                selected))
        vuln_types == IF TruthyText(vuln_type0) THEN {vuln_type0}
                      ELSE select_one(available_types, randomize_flag)
    IN IF func_offset.raised THEN {Raises("parse_src_location(func.body_src)", md)}
       ELSE IF contract_offset.raised THEN {Raises("parse_src_location(contract.src)", md)}
       ELSE IF ~TruthyText(vuln_type0) /\ available_types = <<>>
       THEN {ReturnsFalse("no compatible vulnerability types for this location", md)}
       ELSE UNION {{PointBuild(buf, md, a, version, selected, vuln_type, identifiers,
                               func_offset.value, contract_offset.value, g) :
                       g \in generate(selected, vuln_type, a.template_name, identifiers,
                                      func_indent, state_indent, version, randomize_flag)} :
                      vuln_type \in vuln_types}

\* PointInjector.inject up to the call of _apply_payloads; every outcome names
\* the location that select_one took
PointInject(buf, tree, md, a, version, randomize_flag) ==
    LET vuln_type0 == IF TruthyText(a.vuln_type) THEN a.vuln_type ELSE a.self_vuln_type
        locations == PointInjector_find_locations(tree, vuln_type0)
    IN IF locations = <<>> THEN {ReturnsFalse("no suitable locations", md)}
       ELSE UNION {{[o EXCEPT !.location = PointSelected(selected)] :
                       o \in PointAtLocation(buf, tree, md, a, version, randomize_flag,
                                              selected, vuln_type0)} :
                      selected \in select_one(locations, randomize_flag)}

\* models.py: CoupledInjectionSet
CoupledInjectionSet(contract_info, setter, executor) ==
    [contract |-> contract_info, setter |-> setter, executor |-> executor]

\* a variant that pairs a function with itself too
CoupledFindWithSelfPairs(tree) ==
    LET contracts == SelectSeq(find_contracts(tree), is_concrete_contract)
        PerContract(contract_info) ==
            LET functions == find_functions_in_contract(contract_info.node)
                setter_candidates ==
                    SelectSeq(functions, LAMBDA f : /\ is_public_or_external(f)
                                                    /\ is_state_modifying(f)
                                                    /\ f.has_params)
                executor_candidates ==
                    SelectSeq(functions, LAMBDA f : /\ is_public_or_external(f)
                                                    /\ is_state_modifying(f)
                                                    /\ (f.is_payable \/ ~f.has_params))
                PerSetter(setter) ==
                    [j \in 1..Len(executor_candidates) |->
                        CoupledInjectionSet(contract_info, setter, executor_candidates[j])]
            IN Concat([i \in 1..Len(setter_candidates) |-> PerSetter(setter_candidates[i])])
    IN Concat([i \in 1..Len(contracts) |-> PerContract(contracts[i])])

\* CoupledInjector.find_locations
CoupledInjector_find_locations(tree) ==
    LET contracts == SelectSeq(find_contracts(tree), is_concrete_contract)
        PerContract(contract_info) ==
            LET functions == find_functions_in_contract(contract_info.node)
                setter_candidates ==
                    SelectSeq(functions, LAMBDA f : /\ is_public_or_external(f)
                                                    /\ is_state_modifying(f)
                                                    /\ f.has_params)
                executor_candidates ==
                    SelectSeq(functions, LAMBDA f : /\ is_public_or_external(f)
                                                    /\ is_state_modifying(f)
                                                    /\ (f.is_payable \/ ~f.has_params))
                PerSetter(setter) ==
                    LET executors == SelectSeq(executor_candidates, LAMBDA e : setter.id # e.id)
                    IN [j \in 1..Len(executors) |->
                           CoupledInjectionSet(contract_info, setter, executors[j])]
            IN Concat([i \in 1..Len(setter_candidates) |-> PerSetter(setter_candidates[i])])
    IN Concat([i \in 1..Len(contracts) |-> PerContract(contracts[i])])

\* a variant that takes a payable executor for a failed requirement
TemplateFitsNoPayableExecutor(tmpl, inj_set) ==
    /\ ~(tmpl.setter_needs_args /\ ~inj_set.setter.has_params)
    /\ ~(tmpl.requires_payable_executor /\ inj_set.executor.is_payable)
    /\ ~(tmpl.needs_payable_setter /\ ~inj_set.setter.is_payable)

\* the test of CoupledInjector._filter_by_template for one set and one template
TemplateFitsSet(tmpl, inj_set) ==
    /\ ~(tmpl.setter_needs_args /\ ~inj_set.setter.has_params)
    /\ ~(tmpl.requires_payable_executor /\ ~inj_set.executor.is_payable)
    /\ ~(tmpl.needs_payable_setter /\ ~inj_set.setter.is_payable)
    /\ ~(tmpl.needs_addr_param /\ inj_set.setter.has_params /\ ~has_address_param(inj_set.setter))
    /\ ~(tmpl.needs_uint_param /\ inj_set.setter.has_params /\ ~has_uint_param(inj_set.setter))
    /\ ~("addr" \in Range(tmpl.var_types) /\ inj_set.setter.has_params
         /\ ~has_address_param(inj_set.setter))

\* CoupledInjector._filter_by_template: <<set, template>> pairs, sets outermost
filter_by_template(sets, templates) ==
    LET PerSet(inj_set) ==
            LET fitting == SelectSeq(templates, LAMBDA tmpl : TemplateFitsSet(tmpl, inj_set))
            IN [j \in 1..Len(fitting) |-> <<inj_set, fitting[j]>>]
    IN Concat([i \in 1..Len(sets) |-> PerSet(sets[i])])

CoupledSelected(inj_set) ==
    [contract |-> WithoutNode(inj_set.contract),
     setter |-> WithoutNode(inj_set.setter),
     executor |-> WithoutNode(inj_set.executor)]

\* the function-body indent of CoupledInjector.inject: the detected indent,
\* replaced by eight spaces when it holds anything but white space
BodyIndent(buf, offset) ==
    LET detected == detect_indentation(buf, offset)
    IN IF strip(detected) # <<>>
       THEN <<" ", " ", " ", " ", " ", " ", " ", " ">>
       ELSE detected

\* CoupledInjector.inject, lines 432-509, for the selected pair and drawn names
CoupledBuild(buf, md, a, version, inj_set, template, existing, var_names) ==
    LET md1 == IF a.save_metadata
               THEN InjectionMetadata(a.source_path, a.output_path,
                                      Get(template, "vulnerability_type", <<"c", "r", "o", "s", "s", "-", "f", "u", "n", "c", "t", "i", "o", "n">>),
                                      "coupled", template.name, version)
               ELSE md
        input_param ==
            IF template.needs_uint_param
            THEN OrElse(get_first_param_of_type(inj_set.setter, UINT), "1")
            ELSE IF template.needs_addr_param
            THEN OrElse(get_first_param_of_type(inj_set.setter, ADDRESS), "msg.sender")
            ELSE OrElse(get_first_param_of_type(inj_set.setter, ADDRESS),
                        OrElse(get_first_param(inj_set.setter), "msg.sender"))
        contract_offset == get_contract_body_offset(buf, inj_set.contract)
        setter_offset == get_function_body_offset(inj_set.setter)
        executor_offset == get_function_body_offset(inj_set.executor)
        state_code == generate_state_payload(template, var_names,
                          detect_indentation(buf, contract_offset.value))
        setter_code == generate_setter_payload(template, var_names, input_param,
                           BodyIndent(buf, setter_offset.value))
        executor_code == generate_executor_payload(template, var_names,
                             BodyIndent(buf, executor_offset.value))
    IN IF contract_offset.raised THEN Raises("parse_src_location(contract.src)", md1)
       ELSE IF setter_offset.raised \/ executor_offset.raised
       THEN Raises("parse_src_location(func.body_src)", md1)
       ELSE IF -1 \in {contract_offset.value, setter_offset.value, executor_offset.value}
       THEN ReturnsFalse("could not determine injection offsets", md1)
       ELSE IF state_code.raised THEN Raises("format(state)", md1)
       ELSE IF setter_code.raised THEN Raises("format(setter)", md1)
       ELSE IF executor_code.raised THEN Raises("format(executor)", md1)
       ELSE Applies(<<InjectionPayload(contract_offset.value, state_code.text, "state"),
                      InjectionPayload(setter_offset.value, setter_code.text, "setter"),
                      InjectionPayload(executor_offset.value, executor_code.text, "executor")>>,
                    md1, TemplateSummary(template),
                    CoupledSelected(inj_set), existing, var_names)

\* CoupledInjector.inject up to the call of _apply_payloads
CoupledInject(buf, tree, md, a, version, randomize_flag) ==
    LET all_sets == CoupledInjector_find_locations(tree)
        compatible_templates == coupled_get_compatible_templates(version)
        valid_sets == filter_by_template(all_sets, compatible_templates)
        matching == SelectSeq(valid_sets, LAMBDA t : t[2].name = a.template_name)
        selections == IF Truthy(a.template_name) /\ matching # <<>>
                      THEN select_one(matching, randomize_flag)
                      ELSE select_one(valid_sets, randomize_flag)
        identifiers == extract_all_identifiers(tree)
    IN IF all_sets = <<>> THEN {ReturnsFalse("no suitable locations", md)}
       ELSE IF compatible_templates = <<>> THEN {ReturnsFalse("no compatible templates", md)}
       ELSE IF valid_sets = <<>> THEN {ReturnsFalse("no valid injection sets", md)}
       ELSE UNION {{CoupledBuild(buf, md, a, version, selected[1], selected[2],
                                 identifiers, var_names) :
                       var_names \in coupled_generate_var_names(selected[2].var_types,
                                                                identifiers)} :
                      selected \in selections}

(***************************************************************************)
(* The source files and trees drawn: a file is its sequence of bytes, and  *)
(* the src of a node is the text start:length:file the compiler gives it.  *)
(***************************************************************************)
WalletSource ==
    <<"c", "o", "n", "t", "r", "a", "c", "t", " ", "W", " ", "{", "\n", " ", " ", " ", " ",
      "a", "d", "d", "r", "e", "s", "s", " ", "o", ";", "\n", " ", " ", " ", " ", "f", "u",
      "n", "c", "t", "i", "o", "n", " ", "s", "(", "a", "d", "d", "r", "e", "s", "s", " ", "a",
      ")", " ", "p", "u", "b", "l", "i", "c", " ", "{", "\n", " ", " ", " ", " ", " ", " ",
      " ", " ", "o", " ", "=", " ", "a", ";", "\n", " ", " ", " ", " ", "}", "\n", " ", " ",
      " ", " ", "f", "u", "n", "c", "t", "i", "o", "n", " ", "e", "(", ")", " ", "p", "u", "b",
      "l", "i", "c", " ", "p", "a", "y", "a", "b", "l", "e", " ", "{", "\n", " ", " ", " ",
      " ", " ", " ", " ", " ", "o", " ", "=", " ", "0", ";", "\n", " ", " ", " ", " ", "}",
      "\n", "}", "\n" >>

WalletTree ==
    [name |-> "SourceUnit",
     id |-> 20,
     src |-> <<"0", ":", "1", "4", "1", ":", "0">>,
     attributes |-> <<>>,
     children |-> <<
        [name |-> "ContractDefinition",
         id |-> 19,
         src |-> <<"0", ":", "1", "4", "0", ":", "0">>,
         attributes |-> [name |-> "W", contractKind |-> "contract"],
         children |-> <<
            [name |-> "VariableDeclaration",
             id |-> 1,
             src |-> <<"1", "7", ":", "9", ":", "0">>,
             attributes |-> [name |-> "o", type |-> <<"a", "d", "d", "r", "e", "s", "s">>, stateVariable |-> TRUE],
             children |-> <<>>],
            [name |-> "FunctionDefinition",
             id |-> 10,
             src |-> <<"3", "2", ":", "5", "1", ":", "0">>,
             attributes |-> [name |-> "s", visibility |-> "public", stateMutability |-> "nonpayable", isConstructor |-> FALSE],
             children |-> <<
                [name |-> "ParameterList",
                 id |-> 3,
                 src |-> <<"4", "2", ":", "1", "1", ":", "0">>,
                 attributes |-> <<>>,
                 children |-> <<
                    [name |-> "VariableDeclaration",
                     id |-> 2,
                     src |-> <<"4", "3", ":", "9", ":", "0">>,
                     attributes |-> [name |-> "a", type |-> <<"a", "d", "d", "r", "e", "s", "s">>, stateVariable |-> FALSE],
                     children |-> <<>>] >>],
                [name |-> "ParameterList",
                 id |-> 4,
                 src |-> <<"5", "3", ":", "0", ":", "0">>,
                 attributes |-> <<>>,
                 children |-> <<>>],
                [name |-> "Block",
                 id |-> 9,
                 src |-> <<"6", "1", ":", "2", "2", ":", "0">>,
                 children |-> <<
                    [name |-> "ExpressionStatement",
                     id |-> 8,
                     src |-> <<"7", "1", ":", "6", ":", "0">>,
                     children |-> <<
                        [name |-> "Assignment",
                         id |-> 7,
                         src |-> <<"7", "1", ":", "5", ":", "0">>,
                         attributes |-> [operator |-> "="],
                         children |-> <<
                            [name |-> "Identifier",
                             id |-> 5,
                             src |-> <<"7", "1", ":", "1", ":", "0">>,
                             attributes |-> [value |-> "o", referencedDeclaration |-> 1, type |-> <<"u", "i", "n", "t", "2", "5", "6">>]],
                            [name |-> "Literal",
                             id |-> 6,
                             src |-> <<"7", "5", ":", "1", ":", "0">>,
                             attributes |-> [value |-> "0"]] >>] >>] >>] >>],
            [name |-> "FunctionDefinition",
             id |-> 18,
             src |-> <<"8", "8", ":", "5", "0", ":", "0">>,
             attributes |-> [name |-> "e", visibility |-> "public", stateMutability |-> "payable", isConstructor |-> FALSE],
             children |-> <<
                [name |-> "ParameterList",
                 id |-> 11,
                 src |-> <<"9", "8", ":", "2", ":", "0">>,
                 attributes |-> <<>>,
                 children |-> <<>>],
                [name |-> "ParameterList",
                 id |-> 12,
                 src |-> <<"1", "0", "0", ":", "0", ":", "0">>,
                 attributes |-> <<>>,
                 children |-> <<>>],
                [name |-> "Block",
                 id |-> 17,
                 src |-> <<"1", "1", "6", ":", "2", "2", ":", "0">>,
                 children |-> <<
                    [name |-> "ExpressionStatement",
                     id |-> 16,
                     src |-> <<"1", "2", "6", ":", "6", ":", "0">>,
                     children |-> <<
                        [name |-> "Assignment",
                         id |-> 15,
                         src |-> <<"1", "2", "6", ":", "5", ":", "0">>,
                         attributes |-> [operator |-> "="],
                         children |-> <<
                            [name |-> "Identifier",
                             id |-> 13,
                             src |-> <<"1", "2", "6", ":", "1", ":", "0">>,
                             attributes |-> [value |-> "o", referencedDeclaration |-> 1, type |-> <<"u", "i", "n", "t", "2", "5", "6">>]],
                            [name |-> "Literal",
                             id |-> 14,
                             src |-> <<"1", "3", "0", ":", "1", ":", "0">>,
                             attributes |-> [value |-> "0"]] >>] >>] >>] >>] >>] >>]

TokenSource ==
    <<"l", "i", "b", "r", "a", "r", "y", " ", "L", " ", "{", "\n", "\t", "f", "u", "n", "c",
      "t", "i", "o", "n", " ", "h", "(", "u", "i", "n", "t", "2", "5", "6", " ", "k", ")", " ",
      "p", "u", "b", "l", "i", "c", " ", "{", "\n", "\t", "\t", "k", ";", "\n", "\t", "}",
      "\n", "}", "\n", "c", "o", "n", "t", "r", "a", "c", "t", " ", "T", " ", "{", "\n", "\t",
      "u", "i", "n", "t", "2", "5", "6", " ", "t", ";", "\n", "\t", "f", "u", "n", "c", "t",
      "i", "o", "n", " ", "d", "(", "u", "i", "n", "t", "2", "5", "6", " ", "n", ")", " ", "p",
      "u", "b", "l", "i", "c", " ", "p", "a", "y", "a", "b", "l", "e", " ", "{", "\n", "\t",
      "\t", "t", " ", "=", " ", "n", ";", "\n", "\t", "}", "\n", "\t", "f", "u", "n", "c", "t",
      "i", "o", "n", " ", "g", "(", "a", "d", "d", "r", "e", "s", "s", " ", "b", ")", " ", "p",
      "u", "b", "l", "i", "c", " ", "v", "i", "e", "w", " ", "{", "\n", "\t", "\t", "b", ";",
      "\n", "\t", "}", "\n", "\t", "f", "u", "n", "c", "t", "i", "o", "n", " ", "w", "(", ")",
      " ", "e", "x", "t", "e", "r", "n", "a", "l", " ", "{", "\n", "\t", "\t", "t", " ", "=",
      " ", "0", ";", "\n", "\t", "}", "\n", "\t", "f", "u", "n", "c", "t", "i", "o", "n", " ",
      "p", "(", "b", "o", "o", "l", " ", "f", ")", " ", "i", "n", "t", "e", "r", "n", "a", "l",
      " ", "{", "\n", "\t", "\t", "f", ";", "\n", "\t", "}", "\n", "}", "\n" >>

TokenTree ==
    [name |-> "SourceUnit",
     id |-> 36,
     src |-> <<"0", ":", "2", "5", "4", ":", "0">>,
     attributes |-> <<>>,
     children |-> <<
        [name |-> "ContractDefinition",
         id |-> 6,
         src |-> <<"0", ":", "5", "3", ":", "0">>,
         attributes |-> [name |-> "L", contractKind |-> "library"],
         children |-> <<
            [name |-> "FunctionDefinition",
             id |-> 5,
             src |-> <<"1", "3", ":", "3", "8", ":", "0">>,
             attributes |-> [name |-> "h", visibility |-> "public", stateMutability |-> "nonpayable", isConstructor |-> FALSE],
             children |-> <<
                [name |-> "ParameterList",
                 id |-> 2,
                 src |-> <<"2", "3", ":", "1", "1", ":", "0">>,
                 attributes |-> <<>>,
                 children |-> <<
                    [name |-> "VariableDeclaration",
                     id |-> 1,
                     src |-> <<"2", "4", ":", "9", ":", "0">>,
                     attributes |-> [name |-> "k", type |-> <<"u", "i", "n", "t", "2", "5", "6">>, stateVariable |-> FALSE],
                     children |-> <<>>] >>],
                [name |-> "ParameterList",
                 id |-> 3,
                 src |-> <<"3", "4", ":", "0", ":", "0">>,
                 attributes |-> <<>>,
                 children |-> <<>>],
                [name |-> "Block",
                 id |-> 4,
                 src |-> <<"4", "2", ":", "9", ":", "0">>,
                 children |-> <<>>] >>] >>],
        [name |-> "ContractDefinition",
         id |-> 35,
         src |-> <<"5", "4", ":", "1", "9", "9", ":", "0">>,
         attributes |-> [name |-> "T", contractKind |-> "contract"],
         children |-> <<
            [name |-> "VariableDeclaration",
             id |-> 7,
             src |-> <<"6", "8", ":", "9", ":", "0">>,
             attributes |-> [name |-> "t", type |-> <<"u", "i", "n", "t", "2", "5", "6">>, stateVariable |-> TRUE],
             children |-> <<>>],
            [name |-> "FunctionDefinition",
             id |-> 16,
             src |-> <<"8", "0", ":", "5", "0", ":", "0">>,
             attributes |-> [name |-> "d", visibility |-> "public", stateMutability |-> "payable", isConstructor |-> FALSE],
             children |-> <<
                [name |-> "ParameterList",
                 id |-> 9,
                 src |-> <<"9", "0", ":", "1", "1", ":", "0">>,
                 attributes |-> <<>>,
                 children |-> <<
                    [name |-> "VariableDeclaration",
                     id |-> 8,
                     src |-> <<"9", "1", ":", "9", ":", "0">>,
                     attributes |-> [name |-> "n", type |-> <<"u", "i", "n", "t", "2", "5", "6">>, stateVariable |-> FALSE],
                     children |-> <<>>] >>],
                [name |-> "ParameterList",
                 id |-> 10,
                 src |-> <<"1", "0", "1", ":", "0", ":", "0">>,
                 attributes |-> <<>>,
                 children |-> <<>>],
                [name |-> "Block",
                 id |-> 15,
                 src |-> <<"1", "1", "7", ":", "1", "3", ":", "0">>,
                 children |-> <<
                    [name |-> "ExpressionStatement",
                     id |-> 14,
                     src |-> <<"1", "2", "1", ":", "6", ":", "0">>,
                     children |-> <<
                        [name |-> "Assignment",
                         id |-> 13,
                         src |-> <<"1", "2", "1", ":", "5", ":", "0">>,
                         attributes |-> [operator |-> "="],
                         children |-> <<
                            [name |-> "Identifier",
                             id |-> 11,
                             src |-> <<"1", "2", "1", ":", "1", ":", "0">>,
                             attributes |-> [value |-> "t", referencedDeclaration |-> 7, type |-> <<"u", "i", "n", "t", "2", "5", "6">>]],
                            [name |-> "Literal",
                             id |-> 12,
                             src |-> <<"1", "2", "5", ":", "1", ":", "0">>,
                             attributes |-> [value |-> "0"]] >>] >>] >>] >>],
            [name |-> "FunctionDefinition",
             id |-> 21,
             src |-> <<"1", "3", "2", ":", "4", "3", ":", "0">>,
             attributes |-> [name |-> "g", visibility |-> "public", stateMutability |-> "view", isConstructor |-> FALSE],
             children |-> <<
                [name |-> "ParameterList",
                 id |-> 18,
                 src |-> <<"1", "4", "2", ":", "1", "1", ":", "0">>,
                 attributes |-> <<>>,
                 children |-> <<
                    [name |-> "VariableDeclaration",
                     id |-> 17,
                     src |-> <<"1", "4", "3", ":", "9", ":", "0">>,
                     attributes |-> [name |-> "b", type |-> <<"a", "d", "d", "r", "e", "s", "s">>, stateVariable |-> FALSE],
                     children |-> <<>>] >>],
                [name |-> "ParameterList",
                 id |-> 19,
                 src |-> <<"1", "5", "3", ":", "0", ":", "0">>,
                 attributes |-> <<>>,
                 children |-> <<>>],
                [name |-> "Block",
                 id |-> 20,
                 src |-> <<"1", "6", "6", ":", "9", ":", "0">>,
                 children |-> <<>>] >>],
            [name |-> "FunctionDefinition",
             id |-> 29,
             src |-> <<"1", "7", "7", ":", "3", "5", ":", "0">>,
             attributes |-> [name |-> "w", visibility |-> "external", stateMutability |-> "nonpayable", isConstructor |-> FALSE],
             children |-> <<
                [name |-> "ParameterList",
                 id |-> 22,
                 src |-> <<"1", "8", "7", ":", "2", ":", "0">>,
                 attributes |-> <<>>,
                 children |-> <<>>],
                [name |-> "ParameterList",
                 id |-> 23,
                 src |-> <<"1", "8", "9", ":", "0", ":", "0">>,
                 attributes |-> <<>>,
                 children |-> <<>>],
                [name |-> "Block",
                 id |-> 28,
                 src |-> <<"1", "9", "9", ":", "1", "3", ":", "0">>,
                 children |-> <<
                    [name |-> "ExpressionStatement",
                     id |-> 27,
                     src |-> <<"2", "0", "3", ":", "6", ":", "0">>,
                     children |-> <<
                        [name |-> "Assignment",
                         id |-> 26,
                         src |-> <<"2", "0", "3", ":", "5", ":", "0">>,
                         attributes |-> [operator |-> "="],
                         children |-> <<
                            [name |-> "Identifier",
                             id |-> 24,
                             src |-> <<"2", "0", "3", ":", "1", ":", "0">>,
                             attributes |-> [value |-> "t", referencedDeclaration |-> 7, type |-> <<"u", "i", "n", "t", "2", "5", "6">>]],
                            [name |-> "Literal",
                             id |-> 25,
                             src |-> <<"2", "0", "7", ":", "1", ":", "0">>,
                             attributes |-> [value |-> "0"]] >>] >>] >>] >>],
            [name |-> "FunctionDefinition",
             id |-> 34,
             src |-> <<"2", "1", "4", ":", "3", "7", ":", "0">>,
             attributes |-> [name |-> "p", visibility |-> "internal", stateMutability |-> "nonpayable", isConstructor |-> FALSE],
             children |-> <<
                [name |-> "ParameterList",
                 id |-> 31,
                 src |-> <<"2", "2", "4", ":", "8", ":", "0">>,
                 attributes |-> <<>>,
                 children |-> <<
                    [name |-> "VariableDeclaration",
                     id |-> 30,
                     src |-> <<"2", "2", "5", ":", "6", ":", "0">>,
                     attributes |-> [name |-> "f", type |-> <<"b", "o", "o", "l">>, stateVariable |-> FALSE],
                     children |-> <<>>] >>],
                [name |-> "ParameterList",
                 id |-> 32,
                 src |-> <<"2", "3", "2", ":", "0", ":", "0">>,
                 attributes |-> <<>>,
                 children |-> <<>>],
                [name |-> "Block",
                 id |-> 33,
                 src |-> <<"2", "4", "2", ":", "9", ":", "0">>,
                 children |-> <<>>] >>] >>] >>]

ImportedSource ==
    <<"i", "m", "p", "o", "r", "t", " ", "\"", ".", "/", "B", ".", "s", "o", "l", "\"", ";",
      "\n" >>

ImportedTree ==
    [name |-> "SourceUnit",
     id |-> 12,
     src |-> <<"0", ":", "8", "5", ":", "1">>,
     attributes |-> <<>>,
     children |-> <<
        [name |-> "ContractDefinition",
         id |-> 11,
         src |-> <<"9", ":", "7", "5", ":", "1">>,
         attributes |-> [name |-> "B", contractKind |-> "contract"],
         children |-> <<
            [name |-> "VariableDeclaration",
             id |-> 1,
             src |-> <<"2", "4", ":", "9", ":", "1">>,
             attributes |-> [name |-> "r", type |-> <<"a", "d", "d", "r", "e", "s", "s">>, stateVariable |-> TRUE],
             children |-> <<>>],
            [name |-> "FunctionDefinition",
             id |-> 10,
             src |-> <<"3", "7", ":", "4", "5", ":", "1">>,
             attributes |-> [name |-> "q", visibility |-> "public", stateMutability |-> "nonpayable", isConstructor |-> FALSE],
             children |-> <<
                [name |-> "ParameterList",
                 id |-> 3,
                 src |-> <<"4", "7", ":", "1", "1", ":", "1">>,
                 attributes |-> <<>>,
                 children |-> <<
                    [name |-> "VariableDeclaration",
                     id |-> 2,
                     src |-> <<"4", "8", ":", "9", ":", "1">>,
                     attributes |-> [name |-> "c", type |-> <<"a", "d", "d", "r", "e", "s", "s">>, stateVariable |-> FALSE],
                     children |-> <<>>] >>],
                [name |-> "ParameterList",
                 id |-> 4,
                 src |-> <<"5", "8", ":", "0", ":", "1">>,
                 attributes |-> <<>>,
                 children |-> <<>>],
                [name |-> "Block",
                 id |-> 9,
                 src |-> <<"6", "6", ":", "1", "6", ":", "1">>,
                 children |-> <<
                    [name |-> "ExpressionStatement",
                     id |-> 8,
                     src |-> <<"7", "2", ":", "6", ":", "1">>,
                     children |-> <<
                        [name |-> "Assignment",
                         id |-> 7,
                         src |-> <<"7", "2", ":", "5", ":", "1">>,
                         attributes |-> [operator |-> "="],
                         children |-> <<
                            [name |-> "Identifier",
                             id |-> 5,
                             src |-> <<"7", "2", ":", "1", ":", "1">>,
                             attributes |-> [value |-> "r", referencedDeclaration |-> 1, type |-> <<"u", "i", "n", "t", "2", "5", "6">>]],
                            [name |-> "Literal",
                             id |-> 6,
                             src |-> <<"7", "6", ":", "1", ":", "1">>,
                             attributes |-> [value |-> "0"]] >>] >>] >>] >>] >>] >>]

IfaceSource ==
    <<"i", "n", "t", "e", "r", "f", "a", "c", "e", " ", "I", " ", "{", "\n", " ", " ", "f",
      "u", "n", "c", "t", "i", "o", "n", " ", "v", "(", "u", "i", "n", "t", "2", "5", "6", " ",
      "m", ")", " ", "e", "x", "t", "e", "r", "n", "a", "l", ";", "\n", "}", "\n" >>

IfaceTree ==
    [name |-> "SourceUnit",
     id |-> 6,
     src |-> <<"0", ":", "5", "0", ":", "0">>,
     attributes |-> <<>>,
     children |-> <<
        [name |-> "ContractDefinition",
         id |-> 5,
         src |-> <<"0", ":", "4", "9", ":", "0">>,
         attributes |-> [name |-> "I", contractKind |-> "interface"],
         children |-> <<
            [name |-> "FunctionDefinition",
             id |-> 4,
             src |-> <<"1", "6", ":", "3", "1", ":", "0">>,
             attributes |-> [name |-> "v", visibility |-> "external", stateMutability |-> "nonpayable", isConstructor |-> FALSE],
             children |-> <<
                [name |-> "ParameterList",
                 id |-> 2,
                 src |-> <<"2", "6", ":", "1", "1", ":", "0">>,
                 attributes |-> <<>>,
                 children |-> <<
                    [name |-> "VariableDeclaration",
                     id |-> 1,
                     src |-> <<"2", "7", ":", "9", ":", "0">>,
                     attributes |-> [name |-> "m", type |-> <<"u", "i", "n", "t", "2", "5", "6">>, stateVariable |-> FALSE],
                     children |-> <<>>] >>],
                [name |-> "ParameterList",
                 id |-> 3,
                 src |-> <<"3", "7", ":", "0", ":", "0">>,
                 attributes |-> <<>>,
                 children |-> <<>>] >>] >>] >>]

RelaySource ==
    <<"c", "o", "n", "t", "r", "a", "c", "t", " ", "R", " ", "{", "\n", " ", " ", "u", "i",
      "n", "t", "2", "5", "6", " ", "c", ";", "\n", " ", " ", "f", "u", "n", "c", "t", "i",
      "o", "n", " ", "n", "(", "a", "d", "d", "r", "e", "s", "s", " ", "a", ")", " ", "p", "u",
      "b", "l", "i", "c", " ", "{", "\n", " ", " ", " ", " ", "a", ";", "\n", " ", " ", "}",
      "\n", "}", "\n" >>

RelayTree ==
    [name |-> "SourceUnit",
     id |-> 8,
     src |-> <<"0", ":", "7", "2", ":", "0">>,
     attributes |-> <<>>,
     children |-> <<
        [name |-> "ContractDefinition",
         id |-> 7,
         src |-> <<"0", ":", "7", "1", ":", "0">>,
         attributes |-> [name |-> "R", contractKind |-> "contract"],
         children |-> <<
            [name |-> "VariableDeclaration",
             id |-> 1,
             src |-> <<"1", "5", ":", "9", ":", "0">>,
             attributes |-> [name |-> "c", type |-> <<"u", "i", "n", "t", "2", "5", "6">>, stateVariable |-> TRUE],
             children |-> <<>>],
            [name |-> "FunctionDefinition",
             id |-> 6,
             src |-> <<"2", "8", ":", "4", "1", ":", "0">>,
             attributes |-> [name |-> "n", visibility |-> "public", stateMutability |-> "nonpayable", isConstructor |-> FALSE],
             children |-> <<
                [name |-> "ParameterList",
                 id |-> 3,
                 src |-> <<"3", "8", ":", "1", "1", ":", "0">>,
                 attributes |-> <<>>,
                 children |-> <<
                    [name |-> "VariableDeclaration",
                     id |-> 2,
                     src |-> <<"3", "9", ":", "9", ":", "0">>,
                     attributes |-> [name |-> "a", type |-> <<"a", "d", "d", "r", "e", "s", "s">>, stateVariable |-> FALSE],
                     children |-> <<>>] >>],
                [name |-> "ParameterList",
                 id |-> 4,
                 src |-> <<"4", "9", ":", "0", ":", "0">>,
                 attributes |-> <<>>,
                 children |-> <<>>],
                [name |-> "Block",
                 id |-> 5,
                 src |-> <<"5", "7", ":", "1", "2", ":", "0">>,
                 children |-> <<>>] >>] >>] >>]

(***************************************************************************)
(* The steps of an inject call.  pc is "start" when inject is entered,     *)
(* "apply" when the payload list is handed to _apply_payloads, "applied"   *)
(* when it has returned, "written" after _write_output, and "done" when    *)
(* inject has returned or raised (result says which).  events lists the    *)
(* calls made so far, in order.                                            *)
(***************************************************************************)
\* the assignments of an outcome of inject's first part
Take(o) ==
    /\ payloads' = o.payloads
    /\ metadata' = o.metadata
    /\ selected_template' = o.template
    /\ selected_location' = o.location
    /\ existing_identifiers' = o.existing_names
    /\ generated_names' = o.var_names
    /\ reason' = o.reason
    /\ result' = IF o.kind = "apply" THEN None ELSE o.kind
    /\ pc' = IF o.kind = "apply" THEN "apply" ELSE "done"
    /\ UNCHANGED <<fragments, attempts, fs, found, history, mode, content, ast, solidity_version, randomize, args, modified_content,
                   output_file, metadata_file, events>>

\* PointInjector.inject, lines 160-275
PointPlan ==
    /\ pc = "start" /\ mode = "point"
    /\ \E o \in PointInject(content, ast, metadata, args, solidity_version, randomize) : Take(o)

\* CoupledInjector.inject, lines 391-509
CoupledPlan ==
    /\ pc = "start" /\ mode = "coupled"
    /\ \E o \in CoupledInject(content, ast, metadata, args, solidity_version, randomize) : Take(o)

\* BaseInjector._apply_payloads: it reads self.content and self.metadata, and
\* returns the spliced buffer
ApplyPayloads ==
    /\ pc = "apply"
    /\ LET r == apply_payloads(content, payloads, metadata)
       IN /\ modified_content' = r.content
          /\ metadata' = r.metadata
    /\ pc' = "applied"
    /\ events' = Append(events, "_apply_payloads")
    /\ UNCHANGED <<fragments, attempts, fs, found, history, mode, content, ast, solidity_version, randomize, args, payloads, selected_template,
                   selected_location, existing_identifiers, generated_names, output_file, metadata_file, result,
                   reason>>

\* a variant that writes the source buffer out before _apply_payloads has run
WriteOutputBeforeApply ==
    /\ pc = "apply" /\ mode \in {"point", "coupled"}
    /\ output_file = NoBytes
    /\ output_file' = content
    /\ events' = Append(events, "_write_output")
    /\ UNCHANGED <<fragments, attempts, fs, found, history, pc, mode, content, ast, solidity_version, randomize, args, payloads, metadata,
                   modified_content, selected_template, selected_location, existing_identifiers, generated_names,
                   metadata_file, result, reason>>

\* BaseInjector._write_output
WriteOutput ==
    /\ pc = "applied" /\ mode \in {"point", "coupled"}
    /\ output_file' = modified_content
    /\ events' = Append(events, "_write_output")
    /\ pc' = "written"
    /\ UNCHANGED <<fragments, attempts, fs, found, history, mode, content, ast, solidity_version, randomize, args, payloads, metadata,
                   modified_content, selected_template, selected_location, existing_identifiers, generated_names,
                   metadata_file, result, reason>>

\* InjectionMetadata.to_dict
to_dict(md) ==
    [source_contract |-> md.source_contract,
     output_contract |-> md.output_contract,
     vulnerability_type |-> md.vulnerability_type,
     injection_mode |-> md.injection_mode,
     template_name |-> md.template_name,
     solidity_version |-> md.solidity_version,
     injected_regions |-> md.injected_regions]

\* the end of inject: _save_metadata when save_metadata is set, then return True
SaveMetadata ==
    /\ pc = "written"
    /\ IF args.save_metadata /\ metadata # NoMetadata
       THEN /\ metadata_file' = to_dict(metadata)
            /\ events' = Append(events, "_save_metadata")
       ELSE UNCHANGED <<fragments, attempts, fs, metadata_file, events>>
    /\ result' = "True"
    /\ pc' = "done"
    /\ UNCHANGED <<fragments, attempts, fs, found, history, mode, content, ast, solidity_version, randomize, args, payloads, metadata,
                   modified_content, selected_template, selected_location, existing_identifiers, generated_names,
                   output_file, reason>>

(***************************************************************************)
(* Spec: one inject call of a freshly constructed injector, on the drawn   *)
(* source files and trees, compiler versions, flags and arguments.         *)
(***************************************************************************)
Fixtures ==
    {[source |-> WalletSource, tree |-> WalletTree],
     [source |-> TokenSource, tree |-> TokenTree],
     [source |-> ImportedSource, tree |-> ImportedTree],
     [source |-> IfaceSource, tree |-> IfaceTree],
     [source |-> RelaySource, tree |-> RelayTree]}

\* the compiler versions drawn: 0.4.20, 0.8.10 and 0.3.0
Versions ==
    {<<"0", ".", "4", ".", "2", "0">>,
     <<"0", ".", "8", ".", "1", "0">>,
     <<"0", ".", "3", ".", "0">>}

Call(vuln_type, template_name, save_metadata) ==
    [vuln_type |-> vuln_type, self_vuln_type |-> vuln_type, template_name |-> template_name,
     source_path |-> "in.sol", output_path |-> "out.sol", save_metadata |-> save_metadata]

\* the (vuln_type, template_name) requests of point mode
PointRequests ==
    {<<NoText, None>>,
     <<<<"r", "e", "e", "n", "t", "r", "a", "n", "c", "y">>, None>>,
     <<<<"t", "x", "_", "o", "r", "i", "g", "i", "n">>, None>>,
     <<<<"t", "x", "_", "o", "r", "i", "g", "i", "n">>, "tx_origin_with_param">>,
     <<<<"o", "v", "e", "r", "f", "l", "o", "w">>, "addition_overflow">>,
     <<<<"o", "v", "e", "r", "f", "l", "o", "w">>, "tx_origin_auth">>,
     <<<<"u", "n", "c", "h", "e", "c", "k", "e", "d", "_", "s", "e", "n", "d">>, "unchecked_send_literal">>,
     <<<<"t", "i", "m", "e", "s", "t", "a", "m", "p">>, "no_such_template">>}

\* the template_name requests of coupled mode
CoupledRequests ==
    {None, "tod_transfer_legacy", "tod_call_modern", "reentrancy_bool_guard",
     "dos_refund_050", "no_such_template"}

Init ==
    /\ pc = "start"
    /\ mode \in {"point", "coupled"}
    /\ \E f \in Fixtures : content = f.source /\ ast = f.tree
    /\ solidity_version \in Versions
    /\ randomize \in BOOLEAN
    /\ \E save_metadata \in BOOLEAN :
          IF mode = "point"
          THEN \E r \in PointRequests : args = Call(r[1], r[2], save_metadata)
          ELSE \E t \in CoupledRequests : args = Call(NoText, t, save_metadata)
    /\ payloads = <<>>
    /\ metadata = NoMetadata
    /\ modified_content = NoBytes
    /\ selected_template = NoTemplate
    /\ selected_location = NoLocation
    /\ existing_identifiers = {}
    /\ generated_names = <<>>
    /\ output_file = NoBytes
    /\ metadata_file = NoMetadata
    /\ events = <<>>
    /\ result = None
    /\ reason = None
    /\ history = <<>>
    /\ found = <<>>
    /\ attempts = <<>>
    /\ fs = <<>>
    /\ fragments = <<>>

Next == PointPlan \/ CoupledPlan \/ ApplyPayloads \/ WriteOutput \/ SaveMetadata

Spec == Init /\ [][Next]_vars

(***************************************************************************)
(* SpecApply: _apply_payloads on drawn inputs.  The source buffer is a     *)
(* byte string up to MaxLen, the payload list any list up to MaxPayloads   *)
(* of payloads with offsets in 0..L, and self.metadata is either None or a *)
(* record with no regions yet.                                             *)
(***************************************************************************)
DrawnPayloads(L) ==
    UNION {
        {[i \in 1..n |->
            InjectionPayload(offs[i], conts[i],
                             ComponentNames[((i - 1) % Len(ComponentNames)) + 1])] :
            offs \in [1..n -> 0..L], conts \in [1..n -> PayloadContents]} :
        n \in 0..MaxPayloads}

DrawnMetadata ==
    InjectionMetadata("in.sol", "out.sol", "cross-function", "coupled",
                      "tod_transfer_legacy", "0.4.20")

InitApply ==
    /\ pc = "apply"
    /\ mode = "apply"
    /\ content \in SourceBuffers
    /\ ast = NoNode
    /\ solidity_version = NoText
    /\ randomize = FALSE
    /\ args = Call(NoText, None, FALSE)
    /\ payloads \in DrawnPayloads(Len(content))
    /\ metadata \in {NoMetadata, DrawnMetadata}
    /\ modified_content = NoBytes
    /\ selected_template = NoTemplate
    /\ selected_location = NoLocation
    /\ existing_identifiers = {}
    /\ generated_names = <<>>
    /\ output_file = NoBytes
    /\ metadata_file = NoMetadata
    /\ events = <<>>
    /\ result = None
    /\ reason = None
    /\ history = <<>>
    /\ found = <<>>
    /\ attempts = <<>>
    /\ fs = <<>>
    /\ fragments = <<>>

NextApply == ApplyPayloads

SpecApply == InitApply /\ [][NextApply]_vars

(***************************************************************************)
(* SpecNames: generate_var_names of both template modules, for the         *)
(* var_types list of a registry template and a drawn set of identifiers    *)
(* already in use.                                                         *)
(***************************************************************************)
\* identifiers a tree can hold: names of the pools and suffixed names
ExistingCandidates ==
    {"recipient", "sender", "recipient1", "balances", "deposits", "deposits2",
     "pendingRecipient", "pendingAccount"}

\* generate_var_names as a step
GenerateVarNames ==
    /\ pc = "names"
    /\ generated_names' \in
          IF mode = "point"
          THEN point_generate_var_names(selected_template.var_types, existing_identifiers)
          ELSE coupled_generate_var_names(selected_template.var_types, existing_identifiers)
    /\ pc' = "named"
    /\ UNCHANGED <<fragments, attempts, fs, found, history, mode, content, ast, solidity_version, randomize, args, payloads, metadata,
                   modified_content, selected_template, selected_location, existing_identifiers, output_file,
                   metadata_file, events, result, reason>>

InitNames ==
    /\ pc = "names"
    /\ mode \in {"point", "coupled"}
    /\ selected_template \in
          IF mode = "point"
          THEN {TemplateSummary(t) : t \in Range(ALL_POINT_TEMPLATES \o REENTRANCY_TEMPLATES)}
          ELSE {TemplateSummary(t) : t \in Range(ALL_COUPLED_TEMPLATES)}
    /\ existing_identifiers \in SUBSET ExistingCandidates
    /\ content = <<>>
    /\ ast = NoNode
    /\ solidity_version = NoText
    /\ randomize = TRUE
    /\ args = Call(NoText, None, FALSE)
    /\ payloads = <<>>
    /\ metadata = NoMetadata
    /\ modified_content = NoBytes
    /\ selected_location = NoLocation
    /\ generated_names = <<>>
    /\ output_file = NoBytes
    /\ metadata_file = NoMetadata
    /\ events = <<>>
    /\ result = None
    /\ reason = None
    /\ history = <<>>
    /\ found = <<>>
    /\ attempts = <<>>
    /\ fs = <<>>
    /\ fragments = <<>>

NextNames == GenerateVarNames

SpecNames == InitNames /\ [][NextNames]_vars

(***************************************************************************)
(* SpecSeq: several inject calls in sequence on one injector object, as    *)
(* the loop of batch_inject.py makes them.  The object keeps its cached    *)
(* buffer, its tree and self.metadata between calls; history records the   *)
(* calls that have ended.                                                  *)
(***************************************************************************)
MaxCalls == 2

\* the caller calls inject again on the same object
InjectAgain ==
    /\ pc = "done" /\ mode \in {"point", "coupled"}
    /\ Len(history) + 1 < MaxCalls
    /\ history' = Append(history,
                         [result |-> result, save_metadata |-> args.save_metadata,
                          regions |-> IF metadata = NoMetadata THEN <<>>
                                      ELSE metadata.injected_regions])
    /\ \E save_metadata \in BOOLEAN : args' = [args EXCEPT !.save_metadata = save_metadata]
    /\ pc' = "start"
    /\ payloads' = <<>>
    /\ modified_content' = NoBytes
    /\ selected_template' = NoTemplate
    /\ selected_location' = NoLocation
    /\ existing_identifiers' = {}
    /\ generated_names' = <<>>
    /\ events' = <<>>
    /\ result' = None
    /\ reason' = None
    /\ UNCHANGED <<fragments, attempts, fs, found, mode, content, ast, solidity_version, randomize, metadata, output_file,
                   metadata_file>>

InitSeq ==
    /\ Init
    /\ content \in {WalletSource, TokenSource}
    /\ solidity_version = <<"0", ".", "4", ".", "2", "0">>
    /\ ~randomize

NextSeq == Next \/ InjectAgain

SpecSeq == InitSeq /\ [][NextSeq]_vars

(***************************************************************************)
(* SpecDiscover: the discovery routines on drawn trees.  A tree is what    *)
(* the compiler gives for one or two contract definitions: a contract has  *)
(* a state variable and functions with bodies, a library has functions     *)
(* with bodies and no state variable (the compiler rejects one), and the   *)
(* functions of an interface have no body.                                 *)
(***************************************************************************)
MaxFunctions == 2

PlainSrc == <<"0", ":", "1", ":", "0">>

\* the functions drawn: visibility, mutability, the type of the one
\* parameter (NoText for none), and whether the body writes the state variable
FunctionShapes ==
    {[visibility |-> "public", mutability |-> "nonpayable", param |-> ADDRESS, writes |-> TRUE],
     [visibility |-> "external", mutability |-> "payable", param |-> NoText, writes |-> TRUE],
     [visibility |-> "public", mutability |-> "payable", param |-> <<"u", "i", "n", "t", "2", "5", "6">>, writes |-> TRUE],
     [visibility |-> "internal", mutability |-> "nonpayable", param |-> ADDRESS, writes |-> TRUE],
     [visibility |-> "public", mutability |-> "view", param |-> ADDRESS, writes |-> FALSE]}

FunctionNames == <<"a", "b", "c", "d", "e", "g", "h", "k", "m">>

\* the body of a function: one assignment, to the state variable of the
\* contract or else to the parameter, or no statement
DrawnBlock(first_id, target_id) ==
    [name |-> "Block", id |-> first_id + 4, src |-> PlainSrc,
     children |->
        IF target_id = 0 THEN <<>>
        ELSE <<[name |-> "ExpressionStatement", id |-> first_id + 5, src |-> PlainSrc,
                children |-> <<
                   [name |-> "Assignment", id |-> first_id + 6, src |-> PlainSrc,
                    attributes |-> [operator |-> "="],
                    children |-> <<
                       [name |-> "Identifier", id |-> first_id + 7, src |-> PlainSrc,
                        attributes |-> [value |-> "x", referencedDeclaration |-> target_id]],
                       [name |-> "Literal", id |-> first_id + 8, src |-> PlainSrc,
                        attributes |-> [value |-> "0"]] >>] >>] >>]

DrawnFunction(first_id, state_var_id, kind, j, shape) ==
    LET parameters ==
            IF shape.param = NoText THEN <<>>
            ELSE <<[name |-> "VariableDeclaration", id |-> first_id + 2, src |-> PlainSrc,
                    attributes |-> [name |-> "p", type |-> shape.param, stateVariable |-> FALSE],
                    children |-> <<>>]>>
        target_id == IF shape.writes /\ kind = "contract" THEN state_var_id
                     ELSE IF shape.param # NoText /\ shape.mutability # "view" THEN first_id + 2
                     ELSE 0
    IN [name |-> "FunctionDefinition", id |-> first_id, src |-> PlainSrc,
        attributes |-> [name |-> FunctionNames[j], visibility |-> shape.visibility,
                        stateMutability |-> shape.mutability, isConstructor |-> FALSE],
        children |->
           <<[name |-> "ParameterList", id |-> first_id + 1, src |-> PlainSrc,
              attributes |-> <<>>, children |-> parameters],
             [name |-> "ParameterList", id |-> first_id + 3, src |-> PlainSrc,
              attributes |-> <<>>, children |-> <<>>]>>
           \o (IF kind = "interface" THEN <<>> ELSE <<DrawnBlock(first_id, target_id)>>)]

\* a contract definition: kind is its contractKind, shapes its functions
DrawnContract(first_id, drawn) ==
    [name |-> "ContractDefinition", id |-> first_id, src |-> PlainSrc,
     attributes |-> [name |-> IF first_id = 100 THEN "A" ELSE "B", contractKind |-> drawn.kind],
     children |->
        (IF drawn.kind = "contract"
         THEN <<[name |-> "VariableDeclaration", id |-> first_id + 1, src |-> PlainSrc,
                 attributes |-> [name |-> "x", type |-> <<"u", "i", "n", "t", "2", "5", "6">>,
                                 stateVariable |-> TRUE],
                 children |-> <<>>]>>
         ELSE <<>>)
        \o [j \in 1..Len(drawn.shapes) |->
               DrawnFunction(first_id + 10 * j, first_id + 1, drawn.kind, j, drawn.shapes[j])]]

DrawnTree(drawn_contracts) ==
    [name |-> "SourceUnit", id |-> 1, src |-> PlainSrc, attributes |-> <<>>,
     children |-> [i \in 1..Len(drawn_contracts) |->
                      DrawnContract(100 * i, drawn_contracts[i])]]

DrawnContracts(max_functions) ==
    {[kind |-> kind, shapes |-> shapes] :
        kind \in {"contract", "interface", "library"},
        shapes \in UNION {[1..n -> FunctionShapes] : n \in 0..max_functions}}

\* a second definition: no function, or a setter and an executor
SecondContracts ==
    {[kind |-> kind, shapes |-> shapes] :
        kind \in {"contract", "interface", "library"},
        shapes \in {<<>>,
                    <<[visibility |-> "public", mutability |-> "nonpayable", param |-> ADDRESS, writes |-> TRUE],
                      [visibility |-> "external", mutability |-> "payable", param |-> NoText, writes |-> TRUE]>>}}

\* one definition with up to MaxFunctions functions, alone or followed by a
\* second definition
DrawnTrees ==
    {DrawnTree(<<c>>) : c \in DrawnContracts(MaxFunctions)}
    \cup {DrawnTree(<<c, d>>) : c \in DrawnContracts(MaxFunctions), d \in SecondContracts}

REENTRANCY == <<"r", "e", "e", "n", "t", "r", "a", "n", "c", "y">>
TX_ORIGIN == <<"t", "x", "_", "o", "r", "i", "g", "i", "n">>

Routines ==
    {"find_point_injection_locations", "find_reentrancy_locations",
     "PointInjector.find_locations(reentrancy)", "PointInjector.find_locations(tx_origin)",
     "CoupledInjector.find_locations"}

\* the list the routine returns on the tree
Locations(routine, tree) ==
    CASE routine = "find_point_injection_locations" -> find_point_injection_locations(tree)
      [] routine = "find_reentrancy_locations" -> find_reentrancy_locations(tree)
      [] routine = "PointInjector.find_locations(reentrancy)" ->
            PointInjector_find_locations(tree, REENTRANCY)
      [] routine = "PointInjector.find_locations(tx_origin)" ->
            PointInjector_find_locations(tree, TX_ORIGIN)
      [] routine = "CoupledInjector.find_locations" -> CoupledInjector_find_locations(tree)

\* one call of a discovery routine; a second call repeats the routine of the first
Discover ==
    /\ mode = "discover"
    /\ Len(found) < 2
    /\ \E routine \in Routines :
          /\ found # <<>> => routine = found[1].routine
          /\ found' = Append(found, [routine |-> routine, locations |-> Locations(routine, ast)])
    /\ UNCHANGED <<fragments, attempts, fs, pc, mode, content, ast, solidity_version, randomize, args, payloads, metadata,
                   modified_content, selected_template, selected_location,
                   existing_identifiers, generated_names, output_file, metadata_file,
                   events, result, reason, history>>

InitDiscover ==
    /\ pc = "discover"
    /\ mode = "discover"
    /\ content = NoBytes
    /\ ast \in DrawnTrees
    /\ solidity_version = NoText
    /\ randomize = FALSE
    /\ args = Call(NoText, None, FALSE)
    /\ payloads = <<>>
    /\ metadata = NoMetadata
    /\ modified_content = NoBytes
    /\ selected_template = NoTemplate
    /\ selected_location = NoLocation
    /\ existing_identifiers = {}
    /\ generated_names = <<>>
    /\ output_file = NoBytes
    /\ metadata_file = NoMetadata
    /\ events = <<>>
    /\ result = None
    /\ reason = None
    /\ history = <<>>
    /\ found = <<>>
    /\ attempts = <<>>
    /\ fs = <<>>
    /\ fragments = <<>>

NextDiscover == Discover

SpecDiscover == InitDiscover /\ [][NextDiscover]_vars

(***************************************************************************)
(* SpecVersion: _get_compatible_templates on one template, for drawn       *)
(* version strings of three numeric components.                            *)
(***************************************************************************)
VersionComponents == {<<"4">>, <<"9">>, <<"1", "0">>}

DrawnVersions ==
    {a \o <<".">> \o b \o <<".">> \o c :
        a \in VersionComponents, b \in VersionComponents, c \in VersionComponents}

\* PayloadGenerator._get_compatible_templates on the dict of one template:
\* result tells whether the template is kept
GetCompatibleTemplates ==
    /\ mode = "version" /\ pc = "start"
    /\ result' = IF get_compatible(<<selected_template>>, solidity_version) # <<>>
                 THEN "True" ELSE "False"
    /\ pc' = "done"
    /\ UNCHANGED <<fragments, attempts, fs, mode, content, ast, solidity_version, randomize, args, payloads, metadata,
                   modified_content, selected_template, selected_location,
                   existing_identifiers, generated_names, output_file, metadata_file,
                   events, reason, history, found>>

InitVersion ==
    /\ pc = "start"
    /\ mode = "version"
    /\ content = NoBytes
    /\ ast = NoNode
    /\ solidity_version \in DrawnVersions
    /\ randomize = FALSE
    /\ args = Call(NoText, None, FALSE)
    /\ payloads = <<>>
    /\ metadata = NoMetadata
    /\ modified_content = NoBytes
    /\ \E min_version \in DrawnVersions, max_version \in DrawnVersions :
          selected_template = [name |-> "drawn", min_version |-> min_version,
                               max_version |-> max_version]
    /\ selected_location = NoLocation
    /\ existing_identifiers = {}
    /\ generated_names = <<>>
    /\ output_file = NoBytes
    /\ metadata_file = NoMetadata
    /\ events = <<>>
    /\ result = None
    /\ reason = None
    /\ history = <<>>
    /\ found = <<>>
    /\ attempts = <<>>
    /\ fs = <<>>
    /\ fragments = <<>>

NextVersion == GetCompatibleTemplates

SpecVersion == InitVersion /\ [][NextVersion]_vars

(***************************************************************************)
(* SpecPair: two injection attempts, each with an injector object of its   *)
(* own, whose steps interleave.  They share nothing but the files: a path  *)
(* is a sequence of characters, and a file is absent, a byte string or the *)
(* JSON text of a record.                                                  *)
(***************************************************************************)
NoFile == [absent |-> TRUE]
BytesFile(data) == [bytes |-> data]
JsonFile(record) == [json |-> record]

\* the place of the last c in s, 0 when there is none
LastIndexOf(s, c) ==
    IF \E i \in 1..Len(s) : s[i] = c
    THEN CHOOSE i \in 1..Len(s) : s[i] = c /\ \A j \in (i + 1)..Len(s) : s[j] # c
    ELSE 0

\* Path(output_path).with_suffix(suffix): the suffix of the last component,
\* from its last dot when that is neither its first nor its last character,
\* is replaced; a name without a suffix gets the new one appended
with_suffix(path, suffix) ==
    LET slash == LastIndexOf(path, "/")
        name == SubSeq(path, slash + 1, Len(path))
        dot == LastIndexOf(name, ".")
    IN IF 1 < dot /\ dot < Len(name)
       THEN SubSeq(path, 1, slash + dot - 1) \o suffix
       ELSE path \o suffix

JSON_SUFFIX == <<".", "j", "s", "o", "n">>

SourcePath == <<"i", "n", ".", "s", "o", "l">>

OutputPaths ==
    {<<"o", "u", "t", ".", "s", "o", "l">>,
     <<"o", "u", "t", ".", "t", "x", "t">>,
     <<"a", "l", "t", ".", "s", "o", "l">>}

\* the requests of an attempt: coupled mode with a template name, or point
\* mode with a vulnerability type
AttemptRequests ==
    {[mode |-> "coupled", vuln_type |-> NoText, template_name |-> "tod_transfer_legacy"],
     [mode |-> "point", vuln_type |-> <<"t", "x", "_", "o", "r", "i", "g", "i", "n">>,
      template_name |-> None]}

Attempt(request, output_path) ==
    [pc |-> "start", mode |-> request.mode,
     args |-> [Call(request.vuln_type, request.template_name, TRUE)
                  EXCEPT !.source_path = SourcePath, !.output_path = output_path],
     content |-> NoBytes, metadata |-> NoMetadata, modified_content |-> NoBytes,
     result |-> None]

\* BaseInjector.content: the first use reads the source file
AttemptRead(i) ==
    /\ attempts[i].pc = "start"
    /\ attempts' = [attempts EXCEPT ![i].content = fs[attempts[i].args.source_path].bytes,
                                    ![i].pc = "loaded"]
    /\ UNCHANGED fs

\* inject up to and with _apply_payloads: the buffer and the record are the
\* injector's own
AttemptCompute(i) ==
    /\ attempts[i].pc = "loaded"
    /\ \E o \in IF attempts[i].mode = "point"
                THEN PointInject(attempts[i].content, ast, attempts[i].metadata,
                                 attempts[i].args, solidity_version, randomize)
                ELSE CoupledInject(attempts[i].content, ast, attempts[i].metadata,
                                   attempts[i].args, solidity_version, randomize) :
          IF o.kind = "apply"
          THEN LET r == apply_payloads(attempts[i].content, o.payloads, o.metadata)
               IN attempts' = [attempts EXCEPT ![i].modified_content = r.content,
                                               ![i].metadata = r.metadata,
                                               ![i].pc = "applied"]
          ELSE attempts' = [attempts EXCEPT ![i].metadata = o.metadata,
                                            ![i].result = o.kind,
                                            ![i].pc = "done"]
    /\ UNCHANGED fs

\* BaseInjector._write_output
AttemptWriteOutput(i) ==
    /\ attempts[i].pc = "applied"
    /\ fs' = [fs EXCEPT ![attempts[i].args.output_path] =
                            BytesFile(attempts[i].modified_content)]
    /\ attempts' = [attempts EXCEPT ![i].pc = "written"]

\* BaseInjector._save_metadata, and the return of inject
AttemptSaveMetadata(i) ==
    /\ attempts[i].pc = "written"
    /\ IF attempts[i].args.save_metadata /\ attempts[i].metadata # NoMetadata
       THEN fs' = [fs EXCEPT ![with_suffix(attempts[i].args.output_path, JSON_SUFFIX)] =
                                 JsonFile(to_dict(attempts[i].metadata))]
       ELSE UNCHANGED fs
    /\ attempts' = [attempts EXCEPT ![i].result = "True", ![i].pc = "done"]

PairStep(i) ==
    /\ mode = "pair"
    /\ \/ AttemptRead(i)
       \/ AttemptCompute(i)
       \/ AttemptWriteOutput(i)
       \/ AttemptSaveMetadata(i)
    /\ UNCHANGED <<fragments, pc, mode, content, ast, solidity_version, randomize, args, payloads, metadata,
                   modified_content, selected_template, selected_location,
                   existing_identifiers, generated_names, output_file, metadata_file,
                   events, result, reason, history, found>>

\* the paths of the files: the source, the outputs and their sidecars
PairPaths == {SourcePath} \cup OutputPaths \cup {with_suffix(p, JSON_SUFFIX) : p \in OutputPaths}

InitPair ==
    /\ pc = "pair"
    /\ mode = "pair"
    /\ content = NoBytes
    /\ ast = WalletTree
    /\ solidity_version = <<"0", ".", "4", ".", "2", "0">>
    /\ randomize = FALSE
    /\ args = Call(NoText, None, FALSE)
    /\ payloads = <<>>
    /\ metadata = NoMetadata
    /\ modified_content = NoBytes
    /\ selected_template = NoTemplate
    /\ selected_location = NoLocation
    /\ existing_identifiers = {}
    /\ generated_names = <<>>
    /\ output_file = NoBytes
    /\ metadata_file = NoMetadata
    /\ events = <<>>
    /\ result = None
    /\ reason = None
    /\ history = <<>>
    /\ found = <<>>
    /\ \E first \in AttemptRequests, second \in AttemptRequests :
          \E first_path \in OutputPaths :
             \E second_path \in OutputPaths \ {first_path} :
                attempts = <<Attempt(first, first_path), Attempt(second, second_path)>>
    /\ fs = [p \in PairPaths |-> IF p = SourcePath THEN BytesFile(WalletSource) ELSE NoFile]
    /\ fragments = <<>>

NextPair == \E i \in 1..2 : PairStep(i)

SpecPair == InitPair /\ [][NextPair]_vars

(***************************************************************************)
(* SpecFragments: the payload generators by themselves, for every template *)
(* of the registries.  A point template (templates/point_injection.py and  *)
(* templates/reentrancy.py) goes through lines 187-212 of                  *)
(* PointPayloadGenerator.generate at a location that discovery returns for *)
(* its class; a coupled template goes through generate_state_payload,      *)
(* generate_setter_payload and generate_executor_payload.                  *)
(***************************************************************************)
\* the templates of the three registries with the generator that takes them
PointRegistry == ALL_POINT_TEMPLATES \o REENTRANCY_TEMPLATES

RegistryTemplates ==
    {[generator |-> "point", template |-> PointRegistry[i]] : i \in 1..Len(PointRegistry)}
    \cup {[generator |-> "coupled", template |-> ALL_COUPLED_TEMPLATES[i]] :
             i \in 1..Len(ALL_COUPLED_TEMPLATES)}

\* the indentation strings handed to the generators: a tab, two spaces
Indentations == {<<"\t">>, <<" ", " ">>}

\* the setter parameter names handed to generate_setter_payload
InputParams == {"a", "msg.sender"}

\* one fragment a generator returned, or the fact that it raised
Fragment(component, template_text, indentation, generated) ==
    [component |-> component, template_text |-> template_text,
     indentation |-> indentation, raised |-> generated.raised, text |-> generated.text]

\* PointPayloadGenerator.generate from the generation of the names on
PointFragments(template, location, existing_names, indentation, state_indentation) ==
    {LET g == GeneratePayloads(template, var_names, location, indentation, state_indentation)
     IN (IF TruthyText(g.state_payload)
         THEN <<Fragment("state", template.state, state_indentation,
                         [raised |-> FALSE, text |-> g.state_payload])>>
         ELSE <<>>)
        \o <<Fragment("vulnerable_code", template.code, indentation,
                      [raised |-> FALSE, text |-> g.code_payload])>> :
        var_names \in point_generate_var_names(template.var_types, existing_names)}

\* the three generate_*_payload calls of CoupledInjector.inject
CoupledFragments(template, input_param, existing_names, indentation, state_indentation) ==
    {<<Fragment("state", template.state, state_indentation,
                generate_state_payload(template, var_names, state_indentation)),
       Fragment("setter",
                IF TruthyText(template.setter_condition)
                THEN template.setter_condition ELSE template.setter,
                indentation,
                generate_setter_payload(template, var_names, input_param, indentation)),
       Fragment("executor", template.executor, indentation,
                generate_executor_payload(template, var_names, indentation))>> :
        var_names \in coupled_generate_var_names(template.var_types, existing_names)}

GenerateFragments ==
    /\ mode \in {"point fragments", "coupled fragments"}
    /\ pc = "generate"
    /\ \E indentation \in Indentations, state_indentation \in Indentations :
          IF mode = "point fragments"
          THEN LET locations ==
                       PointInjector_find_locations(ast, lower(selected_template.vuln_type))
               IN \E i \in 1..Len(locations) :
                     fragments' \in PointFragments(selected_template, locations[i],
                                                   existing_identifiers, indentation,
                                                   state_indentation)
          ELSE \E input_param \in InputParams :
                  fragments' \in CoupledFragments(selected_template, input_param,
                                                  existing_identifiers, indentation,
                                                  state_indentation)
    /\ pc' = "generated"
    /\ UNCHANGED <<attempts, fs, found, history, mode, content, ast, solidity_version, randomize,
                   args, payloads, metadata, modified_content, selected_template,
                   selected_location, existing_identifiers, generated_names, output_file,
                   metadata_file, events, result, reason>>

InitFragments ==
    /\ pc = "generate"
    /\ \E r \in RegistryTemplates :
          /\ mode = r.generator \o " fragments"
          /\ selected_template = r.template
    /\ \E f \in {[source |-> WalletSource, tree |-> WalletTree],
                 [source |-> TokenSource, tree |-> TokenTree]} :
          /\ content = f.source
          /\ ast = f.tree
          /\ existing_identifiers = extract_all_identifiers(f.tree)
    /\ solidity_version = NoText
    /\ randomize = FALSE
    /\ args = Call(NoText, None, FALSE)
    /\ payloads = <<>>
    /\ metadata = NoMetadata
    /\ modified_content = NoBytes
    /\ selected_location = NoLocation
    /\ generated_names = <<>>
    /\ output_file = NoBytes
    /\ metadata_file = NoMetadata
    /\ events = <<>>
    /\ result = None
    /\ reason = None
    /\ history = <<>>
    /\ found = <<>>
    /\ attempts = <<>>
    /\ fs = <<>>
    /\ fragments = <<>>

NextFragments == GenerateFragments

SpecFragments == InitFragments /\ [][NextFragments]_vars

(***************************************************************************)
(* SpecIndent: detect_indentation on drawn buffers.  A buffer is up to     *)
(* MaxLines lines, each followed by a line break, and the offset is any    *)
(* position of the buffer.                                                 *)
(***************************************************************************)
MaxLines == 3

\* the lines drawn: blank, white space only, comments of both kinds, the
\* opening, body and closing line of a comment of several lines, and code
\* indented with spaces, with a tab and not at all, one with a comment behind
DrawnLines ==
    {<<>>,
     <<" ">>,
     <<" ", "/", "/", "c">>,
     <<" ", "/", "*", "c">>,
     <<" ", "*", "c">>,
     <<" ", "c", "*", "/">>,
     <<" ", " ", "x", ";">>,
     <<"\t", "y", ";">>,
     <<"z", ";">>,
     <<"\t", "v", ";", "/", "*", "c", "*", "/">>}

RECURSIVE JoinLines(_)
JoinLines(lines) ==
    IF lines = <<>> THEN <<>> ELSE Head(lines) \o <<"\n">> \o JoinLines(Tail(lines))

DrawnBuffers ==
    UNION {{JoinLines(lines) : lines \in [1..n -> DrawnLines]} : n \in 1..MaxLines}

\* detect_indentation(content, offset) as a step
DetectIndentation ==
    /\ mode = "indent"
    /\ pc = "call"
    /\ result' = detect_indentation(content, args.offset)
    /\ pc' = "returned"
    /\ UNCHANGED <<fragments, attempts, fs, found, history, mode, content, ast, solidity_version,
                   randomize, args, payloads, metadata, modified_content, selected_template,
                   selected_location, existing_identifiers, generated_names, output_file,
                   metadata_file, events, reason>>

InitIndent ==
    /\ pc = "call"
    /\ mode = "indent"
    /\ content \in DrawnBuffers
    /\ \E offset \in 0..Len(content) : args = [offset |-> offset]
    /\ ast = NoNode
    /\ solidity_version = NoText
    /\ randomize = FALSE
    /\ payloads = <<>>
    /\ metadata = NoMetadata
    /\ modified_content = NoBytes
    /\ selected_template = NoTemplate
    /\ selected_location = NoLocation
    /\ existing_identifiers = {}
    /\ generated_names = <<>>
    /\ output_file = NoBytes
    /\ metadata_file = NoMetadata
    /\ events = <<>>
    /\ result = <<>>
    /\ reason = None
    /\ history = <<>>
    /\ found = <<>>
    /\ attempts = <<>>
    /\ fs = <<>>
    /\ fragments = <<>>

NextIndent == DetectIndentation

SpecIndent == InitIndent /\ [][NextIndent]_vars

(***************************************************************************)
(* SpecAccept: the prerequisite tests on what discovery returns.  For a    *)
(* point template the locations are those PointInjector.find_locations     *)
(* returns for the template's class, each tested by                        *)
(* check_template_requirements; for a coupled template the sets are those  *)
(* of CoupledInjector.find_locations, each tested by _filter_by_template.   *)
(***************************************************************************)
CheckRequirements ==
    /\ mode \in {"point accept", "coupled accept"}
    /\ pc = "check"
    /\ LET locations ==
               IF mode = "point accept"
               THEN PointInjector_find_locations(ast, lower(selected_template.vuln_type))
               ELSE CoupledInjector_find_locations(ast)
           Accepted(location) ==
               IF mode = "point accept"
               THEN check_template_requirements(selected_template, location)
               ELSE filter_by_template(<<location>>, <<selected_template>>) # <<>>
       IN found' = <<[locations |-> locations,
                      accepted |-> [i \in 1..Len(locations) |-> Accepted(locations[i])]]>>
    /\ pc' = "checked"
    /\ UNCHANGED <<fragments, attempts, fs, history, mode, content, ast, solidity_version,
                   randomize, args, payloads, metadata, modified_content, selected_template,
                   selected_location, existing_identifiers, generated_names, output_file,
                   metadata_file, events, result, reason>>

InitAccept ==
    /\ pc = "check"
    /\ \E r \in RegistryTemplates :
          /\ mode = r.generator \o " accept"
          /\ selected_template = r.template
    /\ content = NoBytes
    /\ ast \in {DrawnTree(<<c>>) : c \in DrawnContracts(MaxFunctions)}
    /\ solidity_version = NoText
    /\ randomize = FALSE
    /\ args = Call(NoText, None, FALSE)
    /\ payloads = <<>>
    /\ metadata = NoMetadata
    /\ modified_content = NoBytes
    /\ selected_location = NoLocation
    /\ existing_identifiers = {}
    /\ generated_names = <<>>
    /\ output_file = NoBytes
    /\ metadata_file = NoMetadata
    /\ events = <<>>
    /\ result = None
    /\ reason = None
    /\ history = <<>>
    /\ found = <<>>
    /\ attempts = <<>>
    /\ fs = <<>>
    /\ fragments = <<>>

NextAccept == CheckRequirements

SpecAccept == InitAccept /\ [][NextAccept]_vars

(***************************************************************************)
(* SpecPrefix: is_version_compatible on a version of three numeric         *)
(* components, written with a comparison operator before it and without.   *)
(***************************************************************************)
Prefixes == {<<"^">>, <<">", "=">>, <<">">>, <<"<">>, <<"<", "=">>}

\* the ends of the interval drawn
IntervalEnds ==
    {a \o <<".">> \o b \o <<".">> \o c :
        a \in {<<"4">>, <<"9">>}, b \in {<<"4">>, <<"9">>}, c \in {<<"4">>, <<"9">>}}

\* the two calls: is_version_compatible(prefix + v, min, max) and
\* is_version_compatible(v, min, max)
CompareVersions ==
    /\ mode = "prefix" /\ pc = "start"
    /\ found' = <<[prefixed |-> is_version_compatible(args.prefix \o args.version,
                                                      selected_template.min_version,
                                                      selected_template.max_version),
                   plain |-> is_version_compatible(args.version,
                                                   selected_template.min_version,
                                                   selected_template.max_version)]>>
    /\ pc' = "done"
    /\ UNCHANGED <<fragments, attempts, fs, mode, content, ast, solidity_version, randomize, args,
                   payloads, metadata, modified_content, selected_template, selected_location,
                   existing_identifiers, generated_names, output_file, metadata_file,
                   events, result, reason, history>>

InitPrefix ==
    /\ pc = "start"
    /\ mode = "prefix"
    /\ content = NoBytes
    /\ ast = NoNode
    /\ \E prefix \in Prefixes, version \in DrawnVersions :
          /\ args = [prefix |-> prefix, version |-> version]
          /\ solidity_version = prefix \o version
    /\ randomize = FALSE
    /\ payloads = <<>>
    /\ metadata = NoMetadata
    /\ modified_content = NoBytes
    /\ \E min_version \in IntervalEnds, max_version \in IntervalEnds :
          selected_template = [name |-> "drawn", min_version |-> min_version,
                               max_version |-> max_version]
    /\ selected_location = NoLocation
    /\ existing_identifiers = {}
    /\ generated_names = <<>>
    /\ output_file = NoBytes
    /\ metadata_file = NoMetadata
    /\ events = <<>>
    /\ result = None
    /\ reason = None
    /\ history = <<>>
    /\ found = <<>>
    /\ attempts = <<>>
    /\ fs = <<>>
    /\ fragments = <<>>

NextPrefix == CompareVersions

SpecPrefix == InitPrefix /\ [][NextPrefix]_vars

(***************************************************************************)
(* SpecFunctions: FunctionInfo.from_ast_node and find_functions_in_contract *)
(* on a contract definition whose direct children are drawn from the kinds *)
(* of node a compiler tree holds.                                          *)
(***************************************************************************)
MaxChildren == 2

DrawnParameter(node_id, param_name, type) ==
    [name |-> "VariableDeclaration", id |-> node_id, src |-> PlainSrc,
     attributes |-> [name |-> param_name, type |-> type, stateVariable |-> FALSE],
     children |-> <<>>]

DrawnParameterList(node_id, parameters) ==
    [name |-> "ParameterList", id |-> node_id, src |-> PlainSrc, attributes |-> <<>>,
     children |-> parameters]

DrawnBody(node_id) ==
    [name |-> "Block", id |-> node_id, src |-> <<"7", ":", "2", ":", "0">>, children |-> <<>>]

\* the children drawn, by shape; first_id is the id of the node
DrawnChild(shape, first_id) ==
    LET takes == DrawnParameterList(first_id + 1, <<DrawnParameter(first_id + 2, "p", ADDRESS)>>)
        returns == DrawnParameterList(first_id + 3, <<DrawnParameter(first_id + 4, "r", UINT)>>)
        nothing == DrawnParameterList(first_id + 1, <<>>)
        Node(kind, attributes, children) ==
            [name |-> kind, id |-> first_id, src |-> PlainSrc, attributes |-> attributes,
             children |-> children]
    IN CASE shape = "function" ->
              Node("FunctionDefinition",
                   [name |-> "f", visibility |-> "public", stateMutability |-> "nonpayable",
                    isConstructor |-> FALSE],
                   <<takes, returns, DrawnBody(first_id + 5)>>)
         [] shape = "function returning only" ->
              Node("FunctionDefinition",
                   [name |-> "h", visibility |-> "external", stateMutability |-> "view",
                    isConstructor |-> FALSE],
                   <<nothing, returns, DrawnBody(first_id + 5)>>)
         [] shape = "function without isConstructor" ->
              Node("FunctionDefinition",
                   [name |-> "k", visibility |-> "internal", stateMutability |-> "payable"],
                   <<takes, DrawnBody(first_id + 5)>>)
         [] shape = "constructor" ->
              Node("FunctionDefinition",
                   [name |-> "", visibility |-> "public", stateMutability |-> "nonpayable",
                    isConstructor |-> TRUE],
                   <<takes, nothing, DrawnBody(first_id + 5)>>)
         [] shape = "named constructor" ->
              Node("FunctionDefinition",
                   [name |-> "A", visibility |-> "public", stateMutability |-> "nonpayable",
                    isConstructor |-> TRUE],
                   <<takes, nothing, DrawnBody(first_id + 5)>>)
         [] shape = "fallback" ->
              Node("FunctionDefinition",
                   [name |-> "", visibility |-> "external", stateMutability |-> "payable",
                    isConstructor |-> FALSE],
                   <<nothing, nothing, DrawnBody(first_id + 5)>>)
         [] shape = "function without body" ->
              Node("FunctionDefinition",
                   [name |-> "g", visibility |-> "public", stateMutability |-> "nonpayable",
                    isConstructor |-> FALSE],
                   <<takes, returns>>)
         [] shape = "modifier" ->
              Node("ModifierDefinition", [name |-> "m", visibility |-> "internal"],
                   <<takes, DrawnBody(first_id + 5)>>)
         [] shape = "state variable" ->
              Node("VariableDeclaration",
                   [name |-> "x", type |-> UINT, stateVariable |-> TRUE], <<>>)

ChildShapes ==
    {"function", "function returning only", "function without isConstructor", "constructor",
     "named constructor", "fallback", "function without body", "modifier", "state variable"}

DrawnDefinitions ==
    UNION {{[name |-> "ContractDefinition", id |-> 100, src |-> PlainSrc,
             attributes |-> [name |-> "A", contractKind |-> "contract"],
             children |-> [j \in 1..n |-> DrawnChild(shapes[j], 100 + 10 * j)]] :
               shapes \in [1..n -> ChildShapes]} :
           n \in 0..MaxChildren}

\* from_ast_node on every direct child, and find_functions_in_contract
FindFunctions ==
    /\ mode = "functions" /\ pc = "start"
    /\ found' = <<[infos |-> [i \in 1..Len(Children(ast)) |->
                                 FunctionInfo_from_ast_node(Children(ast)[i])],
                   functions |-> find_functions_in_contract(ast)]>>
    /\ pc' = "done"
    /\ UNCHANGED <<fragments, attempts, fs, mode, content, ast, solidity_version, randomize, args,
                   payloads, metadata, modified_content, selected_template, selected_location,
                   existing_identifiers, generated_names, output_file, metadata_file,
                   events, result, reason, history>>

InitFunctions ==
    /\ pc = "start"
    /\ mode = "functions"
    /\ content = NoBytes
    /\ ast \in DrawnDefinitions
    /\ solidity_version = NoText
    /\ randomize = FALSE
    /\ args = Call(NoText, None, FALSE)
    /\ payloads = <<>>
    /\ metadata = NoMetadata
    /\ modified_content = NoBytes
    /\ selected_template = NoTemplate
    /\ selected_location = NoLocation
    /\ existing_identifiers = {}
    /\ generated_names = <<>>
    /\ output_file = NoBytes
    /\ metadata_file = NoMetadata
    /\ events = <<>>
    /\ result = None
    /\ reason = None
    /\ history = <<>>
    /\ found = <<>>
    /\ attempts = <<>>
    /\ fs = <<>>
    /\ fragments = <<>>

NextFunctions == FindFunctions

SpecFunctions == InitFunctions /\ [][NextFunctions]_vars

(***************************************************************************)
(* Helpers of the properties.                                              *)
(***************************************************************************)
DistinctOffsets(ps) ==
    \A i, j \in 1..Len(ps) : i # j => ps[i].offset # ps[j].offset

\* the regions recorded for the payload labelled c
RegionsOf(md, c) ==
    {k \in 1..Len(md.injected_regions) : md.injected_regions[k].component = c}

\* buf[start_byte:end_byte] of a region
RegionBytes(buf, r) == Slice(buf, r.start_byte, r.end_byte)

\* buf with the bytes of every region deleted
InRegion(rs, i) ==
    \E k \in 1..Len(rs) : rs[k].start_byte <= i /\ i < rs[k].end_byte

RECURSIVE DeleteRegionsFrom(_, _, _)
DeleteRegionsFrom(buf, rs, i) ==
    IF i >= Len(buf) THEN <<>>
    ELSE (IF InRegion(rs, i) THEN <<>> ELSE <<buf[i + 1]>>)
         \o DeleteRegionsFrom(buf, rs, i + 1)

DeleteRegions(buf, rs) == DeleteRegionsFrom(buf, rs, 0)

Reorderings(ps) ==
    {[i \in 1..Len(ps) |-> ps[f[i]]] :
        f \in {g \in [1..Len(ps) -> 1..Len(ps)] :
                  \A i, j \in 1..Len(ps) : i # j => g[i] # g[j]}}

\* self.metadata as it was when _apply_payloads was entered
MetadataBefore == IF metadata = NoMetadata THEN NoMetadata ELSE DrawnMetadata

(***************************************************************************)
(* C1. Offset correctness: when _apply_payloads has returned for payloads  *)
(* with pairwise-distinct offsets in 0..L and metadata enabled, the        *)
(* returned buffer is L plus the sum of the payload lengths long, and each *)
(* payload has exactly one recorded region, whose slice of the returned    *)
(* buffer is that payload's bytes.                                         *)
(***************************************************************************)
C1_OffsetCorrectness ==
    (pc = "applied" /\ metadata # NoMetadata /\ DistinctOffsets(payloads)) =>
        /\ Len(modified_content) = Len(content) + SumContentLen(payloads)
        /\ Len(metadata.injected_regions) = Len(payloads)
        /\ \A i \in 1..Len(payloads) :
              /\ Cardinality(RegionsOf(metadata, payloads[i].component_name)) = 1
              /\ \A k \in RegionsOf(metadata, payloads[i].component_name) :
                    LET r == metadata.injected_regions[k]
                    IN /\ r.end_byte - r.start_byte = Len(payloads[i].content)
                       /\ RegionBytes(modified_content, r) = payloads[i].content

\* Scenario C in small: a longer payload at the lower offset shifts the
\* region recorded for the payload at the higher offset.
C1_Witness ==
    /\ pc = "applied" /\ metadata # NoMetadata
    /\ Len(payloads) = 2
    /\ payloads[1].offset > payloads[2].offset
    /\ Len(payloads[1].content) = 1 /\ Len(payloads[2].content) = 2
    /\ metadata.injected_regions[1].start_byte = payloads[1].offset + 2
    /\ metadata.injected_regions[2].start_byte = payloads[2].offset

C9_OrderIndependence ==
    (pc = "applied" /\ DistinctOffsets(payloads)) =>
        \A q \in Reorderings(payloads) :
            LET r == apply_payloads(content, q, MetadataBefore)
            IN r.content = modified_content /\ r.metadata = metadata

\* a list given in ascending offset order, which the sort has to reverse
C9_Witness ==
    /\ pc = "applied" /\ metadata # NoMetadata
    /\ Len(payloads) = 3
    /\ payloads[1].offset < payloads[2].offset
    /\ payloads[2].offset < payloads[3].offset
    /\ \A i \in 1..3 : payloads[i].content # <<>>
    /\ metadata.injected_regions[1].component = payloads[3].component_name

(***************************************************************************)
(* C10. A payload list in which two payloads share an offset is rejected   *)
(* before splicing: no insertion is applied and no region is recorded.     *)
(***************************************************************************)
C10_SharedOffsetRejected ==
    (pc = "applied" /\ ~DistinctOffsets(payloads)) =>
        /\ modified_content = content
        /\ metadata # NoMetadata => metadata.injected_regions = <<>>


(***************************************************************************)
(* C3. Write ordering and all-or-nothing: the calls of an inject attempt   *)
(* come in the order _apply_payloads, _write_output, _save_metadata, each  *)
(* at most once; the output file exists only once _write_output has run    *)
(* and then holds the complete spliced buffer that _apply_payloads         *)
(* returned; the metadata file exists only once the output file does; and  *)
(* when inject has returned False neither file has been written.           *)
(***************************************************************************)
C3_WriteOrdering ==
    mode \in {"point", "coupled"} =>
        /\ \E n \in 0..3 :
              events = SubSeq(<<"_apply_payloads", "_write_output", "_save_metadata">>, 1, n)
        /\ output_file # NoBytes <=> "_write_output" \in Range(events)
        /\ output_file # NoBytes =>
              /\ output_file = modified_content
              /\ output_file = apply_payloads(content, payloads, NoMetadata).content
        /\ metadata_file # NoMetadata <=> "_save_metadata" \in Range(events)
        /\ metadata_file # NoMetadata => output_file # NoBytes
        /\ result = "False" => output_file = NoBytes /\ metadata_file = NoMetadata

\* a coupled injection that went through all three calls
C3_Witness ==
    /\ mode = "coupled" /\ pc = "done" /\ result = "True"
    /\ events = <<"_apply_payloads", "_write_output", "_save_metadata">>
    /\ Len(payloads) = 3
    /\ Len(output_file) > Len(content)
    /\ metadata_file # NoMetadata

(***************************************************************************)
(* C4. Every failure is returned: an inject call that has ended has        *)
(* returned True or False, it has not raised.                              *)
(***************************************************************************)
C4_NoExceptionPropagates ==
    (mode \in {"point", "coupled"} /\ pc = "done") => result \in {"True", "False"}

(***************************************************************************)
(* C5. A requested template is never substituted: when inject was called   *)
(* with a template_name and has selected a template, the selected template *)
(* is the one with that name.                                              *)
(***************************************************************************)
C5_RequestedTemplateApplied ==
    (mode \in {"point", "coupled"} /\ args.template_name # None
        /\ selected_template # NoTemplate) =>
        selected_template.name = args.template_name

(***************************************************************************)
(* C6. Name collision avoidance: no name returned by generate_var_names is *)
(* among the existing identifiers, and the names it returns for different  *)
(* placeholders differ.                                                    *)
(***************************************************************************)
C6_NamesFresh ==
    pc = "named" =>
        /\ \A i \in 1..Len(generated_names) : generated_names[i][2] \notin existing_identifiers
        /\ \A i, j \in 1..Len(generated_names) :
              i # j => generated_names[i][2] # generated_names[j][2]

(***************************************************************************)
(* C7. Reproducibility: with randomize = False, any two runs of inject on  *)
(* the same source bytes, tree, compiler version and arguments end with    *)
(* the same result, the same output buffer and the same metadata record.   *)
(***************************************************************************)
\* the runs inject can take from the present state
InjectOutcomes ==
    IF mode = "point"
    THEN PointInject(content, ast, metadata, args, solidity_version, randomize)
    ELSE CoupledInject(content, ast, metadata, args, solidity_version, randomize)

\* what a run leaves behind: the result, the output buffer and the metadata
RunOf(o) ==
    IF o.kind = "apply"
    THEN LET r == apply_payloads(content, o.payloads, o.metadata)
         IN [result |-> "True", output |-> r.content,
             record |-> IF r.metadata = NoMetadata THEN NoMetadata ELSE to_dict(r.metadata)]
    ELSE [result |-> o.kind, output |-> NoBytes, record |-> NoMetadata]

C7_Reproducible ==
    (mode \in {"point", "coupled"} /\ pc = "start" /\ ~randomize) =>
        \A o1, o2 \in InjectOutcomes : RunOf(o1) = RunOf(o2)

(***************************************************************************)
(* C8. Region bounds: after a successful injection every recorded region   *)
(* has 0 <= start_byte <= end_byte <= the length of the output buffer.     *)
(***************************************************************************)
C8_RegionsInBounds ==
    (mode \in {"point", "coupled"} /\ pc = "done" /\ result = "True"
        /\ metadata # NoMetadata) =>
        \A k \in 1..Len(metadata.injected_regions) :
            LET r == metadata.injected_regions[k]
            IN /\ 0 <= r.start_byte
               /\ r.start_byte <= r.end_byte
               /\ r.end_byte <= Len(output_file)

(***************************************************************************)
(* C11. Regions per attempt: after a successful inject with metadata       *)
(* enabled, the record written holds exactly one region per payload of     *)
(* this attempt, labelled with the payload's component, in descending      *)
(* order of the payloads' original offsets; this holds for a later call on *)
(* the same injector object too, so no region of an earlier attempt is in  *)
(* the record of a later one.                                              *)
(***************************************************************************)
\* the original offset of the payload labelled c
OffsetOf(c) ==
    payloads[CHOOSE i \in 1..Len(payloads) : payloads[i].component_name = c].offset

C11_RegionsPerAttempt ==
    (mode \in {"point", "coupled"} /\ pc = "done" /\ result = "True"
        /\ args.save_metadata) =>
        LET rs == metadata_file.injected_regions
        IN /\ metadata_file = to_dict(metadata)
           /\ Len(rs) = Len(payloads)
           /\ \A i \in 1..Len(payloads) :
                 Cardinality({k \in 1..Len(rs) :
                                 rs[k].component = payloads[i].component_name}) = 1
           /\ \A k, l \in 1..Len(rs) :
                 k < l => OffsetOf(rs[k].component) >= OffsetOf(rs[l].component)

\* a second successful call on an object whose first call recorded regions
C11_Witness ==
    /\ Len(history) = 1
    /\ history[1].result = "True" /\ history[1].regions # <<>>
    /\ pc = "done" /\ result = "True" /\ args.save_metadata
    /\ Len(metadata_file.injected_regions) = 3

\* the positions just after the opening braces of the source, in order
BraceOffsets(buf) == SelectSeq([i \in 1..Len(buf) |-> i], LAMBDA i : buf[i] = "{")

(***************************************************************************)
(* C13. Scenario B: on a contract whose externally callable functions are  *)
(* a non-payable setter with an address parameter and a payable executor   *)
(* without parameters, discovery returns one set, and inject with template *)
(* tod_transfer_legacy at version 0.4.20 returns True with three payloads: *)
(* the state declaration just inside the contract body, one insertion just *)
(* inside the setter body and one just inside the executor body.           *)
(***************************************************************************)
C13_ScenarioB ==
    (/\ mode = "coupled" /\ content = WalletSource
     /\ solidity_version = <<"0", ".", "4", ".", "2", "0">>
     /\ args.template_name = "tod_transfer_legacy"
     /\ pc = "done") =>
        /\ Len(CoupledInjector_find_locations(ast)) = 1
        /\ result = "True"
        /\ selected_template.name = "tod_transfer_legacy"
        /\ [i \in 1..Len(payloads) |-> payloads[i].component_name]
              = <<"state", "setter", "executor">>
        /\ [i \in 1..Len(payloads) |-> payloads[i].offset] = BraceOffsets(content)
        /\ events = <<"_apply_payloads", "_write_output">>
                       \o (IF args.save_metadata THEN <<"_save_metadata">> ELSE <<>>)

\* the scenario has run to its end with a random selection
C13_Witness ==
    /\ mode = "coupled" /\ content = WalletSource
    /\ solidity_version = <<"0", ".", "4", ".", "2", "0">>
    /\ args.template_name = "tod_transfer_legacy"
    /\ randomize /\ args.save_metadata
    /\ pc = "done" /\ result = "True"
    /\ Len(payloads) = 3
    /\ output_file # NoBytes

\* the vulnerability class an inject call asks for
RequestedType == IF TruthyText(args.vuln_type) THEN args.vuln_type ELSE args.self_vuln_type

\* the templates of the requested class whose version interval holds the
\* compiler version and whose requirements the location meets: a template
\* with a state fragment requires a state modifying function
Candidates(loc) ==
    {t \in Range(get_templates_for_type(RequestedType)) :
        /\ TupleLE(parse_version(t.min_version), parse_version(solidity_version))
        /\ TupleLE(parse_version(solidity_version), parse_version(t.max_version))
        /\ t.needs_addr_param => loc.has_address_param
        /\ t.needs_uint_param => loc.has_uint_param
        /\ (t.needs_state_modifying \/ t.state # NoText) => loc.is_state_modifying}

(***************************************************************************)
(* C15. No candidate is a failure value: when a vulnerability class is     *)
(* requested and no template of it is both compatible with the version and *)
(* satisfied by the selected location, PointInjector.inject returns False  *)
(* for the no-compatible-template condition that generate raised, without  *)
(* raising and without writing a file.                                     *)
(***************************************************************************)
C15_NoCandidateReturnsFalse ==
    (/\ mode = "point" /\ pc # "start"
     /\ TruthyText(RequestedType)
     /\ selected_location # NoLocation
     /\ Candidates(selected_location) = {}) =>
        /\ pc = "done" /\ result = "False"
        /\ reason \in {"no compatible templates", "no compatible templates for location"}
        /\ events = <<>>
        /\ output_file = NoBytes /\ metadata_file = NoMetadata

\* an overflow request at a version with templates of the class, on a view
\* function without a uint parameter, which none of them fits
C15_Witness ==
    /\ mode = "point" /\ pc = "done" /\ result = "False"
    /\ RequestedType = <<"o", "v", "e", "r", "f", "l", "o", "w">>
    /\ selected_location # NoLocation
    /\ ~selected_location.is_state_modifying /\ ~selected_location.has_uint_param
    /\ get_compatible(get_templates_for_type(RequestedType), solidity_version) # <<>>
    /\ Candidates(selected_location) = {}
    /\ reason = "no compatible templates for location"

\* the registry records that carry the name of the template applied
AppliedTemplates ==
    {t \in Range(IF mode = "point"
                 THEN OVERFLOW_TEMPLATES \o BATCH_TRANSFER_OVERFLOW \o TX_ORIGIN_TEMPLATES
                      \o UNCHECKED_SEND_TEMPLATES \o UNHANDLED_CALL_TEMPLATES
                      \o TIMESTAMP_TEMPLATES \o REENTRANCY_TEMPLATES
                 ELSE ALL_COUPLED_TEMPLATES) :
        t.name = selected_template.name}

HasParamOfType(f, type_name) ==
    \E i \in 1..Len(f.params) : Contains(lower(f.params[i].type), type_name)

NotViewOrPure(f) == f.state_mutability \notin {"view", "pure"}

(***************************************************************************)
(* C16. The template that inject applies meets its declared prerequisite   *)
(* flags at the selected location: needs_addr_param and needs_uint_param   *)
(* by a parameter of the function (the setter in coupled mode), needs_     *)
(* state_modifying by a function that is not view or pure, requires_       *)
(* payable_executor by a payable executor, needs_payable_setter by a       *)
(* payable setter; and its version interval holds the compiler version.    *)
(***************************************************************************)
C16_PrerequisitesMet ==
    (mode \in {"point", "coupled"} /\ selected_template # NoTemplate) =>
        /\ AppliedTemplates # {}
        /\ \A t \in AppliedTemplates :
              /\ TupleLE(parse_version(t.min_version), parse_version(solidity_version))
              /\ TupleLE(parse_version(solidity_version), parse_version(t.max_version))
              /\ IF mode = "point"
                 THEN /\ t.needs_addr_param => HasParamOfType(selected_location.function, ADDRESS)
                      /\ t.needs_uint_param => HasParamOfType(selected_location.function, UINT)
                      /\ t.needs_state_modifying => NotViewOrPure(selected_location.function)
                 ELSE /\ t.needs_addr_param => HasParamOfType(selected_location.setter, ADDRESS)
                      /\ t.needs_uint_param => HasParamOfType(selected_location.setter, UINT)
                      /\ t.needs_state_modifying =>
                            /\ NotViewOrPure(selected_location.setter)
                            /\ NotViewOrPure(selected_location.executor)
                      /\ t.requires_payable_executor =>
                            selected_location.executor.state_mutability = "payable"
                      /\ t.needs_payable_setter =>
                            selected_location.setter.state_mutability = "payable"

\* a coupled template has been applied to a set whose executor is not
\* payable, at a version with templates that require a payable executor
C16_Witness ==
    /\ mode = "coupled" /\ pc = "done" /\ result = "True"
    /\ selected_template # NoTemplate
    /\ ~selected_location.executor.is_payable
    /\ \E k \in 1..Len(coupled_get_compatible_templates(solidity_version)) :
          coupled_get_compatible_templates(solidity_version)[k].requires_payable_executor

(***************************************************************************)
(* Properties of the discovery routines (SpecDiscover).                    *)
(***************************************************************************)
\* the functions of a contract that qualify as setter and as executor
SetterCandidates(contract_info) ==
    {f \in Range(find_functions_in_contract(contract_info.node)) :
        /\ f.visibility \in {"public", "external"}
        /\ f.state_mutability \notin {"view", "pure", "constant"}
        /\ Len(f.params) >= 1}

ExecutorCandidates(contract_info) ==
    {f \in Range(find_functions_in_contract(contract_info.node)) :
        /\ f.visibility \in {"public", "external"}
        /\ f.state_mutability \notin {"view", "pure", "constant"}
        /\ (f.state_mutability = "payable" \/ Len(f.params) = 0)}

\* the contract definitions of the tree that are neither interface nor library
ConcreteContracts(tree) ==
    SelectSeq(find_contracts(tree), LAMBDA c : c.contract_kind = "contract")

RECURSIVE PairCount(_)
PairCount(contracts) ==
    IF contracts = <<>> THEN 0
    ELSE Cardinality(SetterCandidates(Head(contracts)))
            * Cardinality(ExecutorCandidates(Head(contracts)))
         - Cardinality(SetterCandidates(Head(contracts))
                          \cap ExecutorCandidates(Head(contracts)))
         + PairCount(Tail(contracts))

\* the position of a contract definition in the tree
ContractPosition(tree, contract_info) ==
    CHOOSE i \in 1..Len(find_contracts(tree)) : find_contracts(tree)[i].id = contract_info.id

(***************************************************************************)
(* C12. Cross-function discovery: the sets CoupledInjector.find_locations  *)
(* returns are, contract by contract in document order, exactly the pairs  *)
(* of a setter candidate and an executor candidate of the same concrete    *)
(* contract with different ids, each pair once, and their number is m*n    *)
(* minus the number of functions that are both, summed over the contracts. *)
(***************************************************************************)
C12_CoupledDiscovery ==
    \A n \in 1..Len(found) :
        found[n].routine = "CoupledInjector.find_locations" =>
            LET sets == found[n].locations
                concrete == ConcreteContracts(ast)
            IN /\ \A k \in 1..Len(sets) :
                     /\ sets[k].contract \in Range(concrete)
                     /\ sets[k].setter \in SetterCandidates(sets[k].contract)
                     /\ sets[k].executor \in ExecutorCandidates(sets[k].contract)
                     /\ sets[k].setter.id # sets[k].executor.id
               /\ \A c \in Range(concrete) :
                     \A s \in SetterCandidates(c), e \in ExecutorCandidates(c) :
                        s.id # e.id =>
                           Cardinality({k \in 1..Len(sets) :
                                           /\ sets[k].contract = c
                                           /\ sets[k].setter = s
                                           /\ sets[k].executor = e}) = 1
               /\ Len(sets) = PairCount(concrete)
               /\ \A k, l \in 1..Len(sets) :
                     k < l => ContractPosition(ast, sets[k].contract)
                                 <= ContractPosition(ast, sets[l].contract)

\* a contract with two functions that are each both setter and executor
\* candidates, so that the self-pairs are what the count leaves out
C12_Witness ==
    \E n \in 1..Len(found) :
        /\ found[n].routine = "CoupledInjector.find_locations"
        /\ Len(found[n].locations) = 2
        /\ \E c \in Range(ConcreteContracts(ast)) :
              Cardinality(SetterCandidates(c) \cap ExecutorCandidates(c)) = 2

\* the routines whose locations name their contract
ContractRoutines ==
    {"find_point_injection_locations", "PointInjector.find_locations(reentrancy)",
     "PointInjector.find_locations(tx_origin)", "CoupledInjector.find_locations"}

(***************************************************************************)
(* C14. Only concrete contracts are injection targets: every location that *)
(* find_point_injection_locations, PointInjector.find_locations (for the   *)
(* reentrancy class and for another class) or CoupledInjector.find_        *)
(* locations returns names a contract whose kind is neither interface nor  *)
(* library.                                                                *)
(***************************************************************************)
C14_OnlyConcreteContracts ==
    \A n \in 1..Len(found) :
        found[n].routine \in ContractRoutines =>
            \A k \in 1..Len(found[n].locations) :
                found[n].locations[k].contract.contract_kind \notin {"interface", "library"}

\* locations found in a contract that follows a library with public functions
\* that have a body and assign
C14_Witness ==
    \E n \in 1..Len(found) :
        /\ found[n].routine = "PointInjector.find_locations(reentrancy)"
        /\ found[n].locations # <<>>
        /\ Len(find_contracts(ast)) = 2
        /\ find_contracts(ast)[1].contract_kind = "library"
        /\ \E f \in Range(find_functions_in_contract(find_contracts(ast)[1].node)) :
              /\ f.visibility = "public" /\ f.state_mutability = "nonpayable"
              /\ find_nodes_by_name(f.node, "Assignment") # <<>>

\* the ids of the nodes of the tree in visiting order
TreeIds(tree) ==
    LET nodes == traverse_ast(tree)
    IN [i \in 1..Len(nodes) |-> Get(nodes[i], "id", 0)]

\* the place of the node with this id in the visiting order
PositionOfId(ids, node_id) ==
    CHOOSE i \in 1..Len(ids) : ids[i] = node_id /\ \A j \in 1..(i - 1) : ids[j] # node_id

\* where in the tree a location of the routine lies
PlaceOf(routine, ids, loc) ==
    CASE routine = "find_reentrancy_locations" -> <<PositionOfId(ids, loc.assignment_id)>>
      [] routine = "CoupledInjector.find_locations" ->
            <<PositionOfId(ids, loc.contract.id), PositionOfId(ids, loc.setter.id),
              PositionOfId(ids, loc.executor.id)>>
      [] OTHER -> <<PositionOfId(ids, loc.function.id)>>

InDocumentOrder(routine, tree, locations) ==
    LET ids == TreeIds(tree)
        places == [k \in 1..Len(locations) |-> PlaceOf(routine, ids, locations[k])]
    IN \A k \in 1..(Len(locations) - 1) : TupleLess(places[k], places[k + 1])

VersionNumbers(v) == [i \in 1..3 |-> IntOfDigits(split(v, ".")[i])]

\* a is before b, or equal to it, in the order by major, then minor, then patch
VersionLE(a, b) ==
    \/ a[1] < b[1]
    \/ a[1] = b[1] /\ a[2] < b[2]
    \/ a[1] = b[1] /\ a[2] = b[2] /\ a[3] <= b[3]

(***************************************************************************)
(* C17. Version interval test: for version strings of three numeric        *)
(* components, a template is compatible exactly when min <= v <= max in    *)
(* the order by major, minor and patch number; a version below min or      *)
(* above max is never compatible.                                          *)
(***************************************************************************)
C17_VersionInterval ==
    (mode = "version" /\ pc = "done") =>
        ((result = "True") <=>
            /\ VersionLE(VersionNumbers(selected_template.min_version),
                         VersionNumbers(solidity_version))
            /\ VersionLE(VersionNumbers(solidity_version),
                         VersionNumbers(selected_template.max_version)))

\* 4.10.4 lies in the interval from 4.9.4 to 4.10.9: as numbers, not as text
C17_Witness ==
    /\ mode = "version" /\ pc = "done" /\ result = "True"
    /\ solidity_version = <<"4", ".", "1", "0", ".", "4">>
    /\ selected_template.min_version = <<"4", ".", "9", ".", "4">>
    /\ selected_template.max_version = <<"4", ".", "1", "0", ".", "9">>

(***************************************************************************)
(* Properties of attempts that run side by side (SpecPair).                *)
(***************************************************************************)
\* the sidecar of an attempt
SidecarPath(i) == with_suffix(attempts[i].args.output_path, JSON_SUFFIX)

(***************************************************************************)
(* C18. Independent attempts do not interfere: when two attempts with      *)
(* distinct output paths have both finished, in whatever order their steps *)
(* ran, the output file of each successful attempt holds the buffer that   *)
(* attempt made, and its sidecar holds the record that attempt made, which *)
(* names its own output file.                                              *)
(***************************************************************************)
C18_AttemptsIndependent ==
    (/\ mode = "pair"
     /\ attempts[1].args.output_path # attempts[2].args.output_path
     /\ \A i \in 1..2 : attempts[i].pc = "done") =>
        \A i \in 1..2 :
            attempts[i].result = "True" =>
                /\ fs[attempts[i].args.output_path] = BytesFile(attempts[i].modified_content)
                /\ fs[SidecarPath(i)] = JsonFile(to_dict(attempts[i].metadata))
                /\ fs[SidecarPath(i)].json.output_contract = attempts[i].args.output_path

\* the same for attempts whose sidecar paths differ as well
AttemptsWithOwnSidecars ==
    SidecarPath(1) # SidecarPath(2) => C18_AttemptsIndependent

\* both attempts succeeded and one sidecar holds the record of the other
SidecarOverwritten ==
    /\ mode = "pair"
    /\ \A i \in 1..2 : attempts[i].pc = "done" /\ attempts[i].result = "True"
    /\ \E i \in 1..2 : fs[SidecarPath(i)] # JsonFile(to_dict(attempts[i].metadata))

(***************************************************************************)
(* Properties of the recorded start positions (SpecApply).                 *)
(***************************************************************************)
\* the total length of the payloads of ps at the places in chosen
RECURSIVE LengthOfChosen(_, _)
LengthOfChosen(ps, chosen) ==
    IF chosen = {} THEN 0
    ELSE LET j == CHOOSE k \in chosen : TRUE
         IN Len(ps[j].content) + LengthOfChosen(ps, chosen \ {j})

HigherOffsets(ps, i) == {j \in 1..Len(ps) : ps[j].offset > ps[i].offset}

\* the payloads spliced after payload i: the sort is stable, so among equal
\* offsets these are the ones that come later in the list
AppliedAfter(ps, i) ==
    {j \in 1..Len(ps) : \/ ps[j].offset < ps[i].offset
                        \/ ps[j].offset = ps[i].offset /\ j > i}

\* the start recorded for payload i, found by its component label
RecordedStart(i) ==
    LET k == CHOOSE n \in RegionsOf(metadata, payloads[i].component_name) : TRUE
    IN metadata.injected_regions[k].start_byte

(***************************************************************************)
(* C20 as stated. The final start position recorded for a payload equals   *)
(* its original offset plus the total length of all payloads inserted at   *)
(* strictly higher original offsets.                                       *)
(***************************************************************************)
C20_ShiftedByHigherOffsets ==
    (pc = "applied" /\ mode = "apply" /\ metadata # NoMetadata) =>
        \A i \in 1..Len(payloads) :
            RecordedStart(i) =
                payloads[i].offset + LengthOfChosen(payloads, HigherOffsets(payloads, i))

(***************************************************************************)
(* C20 as amended. The final start position recorded for a payload equals  *)
(* its original offset plus the total length of all payloads inserted at   *)
(* strictly lower original offsets, and of those at the same offset that   *)
(* come later in the list.                                                 *)
(***************************************************************************)
C20_ShiftedByLowerOffsets ==
    (pc = "applied" /\ mode = "apply" /\ metadata # NoMetadata) =>
        \A i \in 1..Len(payloads) :
            RecordedStart(i) =
                payloads[i].offset + LengthOfChosen(payloads, AppliedAfter(payloads, i))

\* three payloads at distinct offsets, none empty: the one in the middle is
\* shifted by the one below it and not by the one above it
C20_Witness ==
    /\ pc = "applied" /\ mode = "apply" /\ metadata # NoMetadata
    /\ Len(payloads) = 3
    /\ payloads[1].offset < payloads[2].offset /\ payloads[2].offset < payloads[3].offset
    /\ Len(payloads[1].content) = 2 /\ Len(payloads[3].content) = 1
    /\ payloads[2].content # <<>>
    /\ RecordedStart(2) = payloads[2].offset + 2
    /\ RecordedStart(3) = payloads[3].offset + 2 + Len(payloads[2].content)

(***************************************************************************)
(* Properties of the generated fragments (SpecFragments).                  *)
(***************************************************************************)
\* the placeholder names of the registries' fragment texts
PlaceholderTokens ==
    {"var_addr", "var_uint", "var_mapping", "var_bool", "var_time", "var_array",
     "input_param", "uint_param", "indent"}

\* the tokens left in a text
TokensLeft(text) == {token \in PlaceholderTokens : Contains(text, Placeholder(token))}

(***************************************************************************)
(* C21. Every fragment that payload generation returns for a registry      *)
(* template (point, reentrancy or coupled) has all its placeholders        *)
(* resolved: none of the tokens {var_addr}, {var_uint}, {var_mapping},     *)
(* {var_bool}, {var_time}, {var_array}, {input_param}, {uint_param} and    *)
(* {indent} is left in the generated text.                                 *)
(***************************************************************************)
C21_PlaceholdersResolved ==
    pc = "generated" =>
        \A i \in 1..Len(fragments) :
            ~fragments[i].raised => TokensLeft(fragments[i].text) = {}

\* the templates whose fragments keep a token
TemplatesWithTokensLeft ==
    pc = "generated" =>
        ((\E i \in 1..Len(fragments) :
             ~fragments[i].raised /\ TokensLeft(fragments[i].text) # {})
         => selected_template.name = "delegate_reentrancy")

(***************************************************************************)
(* Properties of the indentation of the fragments (Spec).                  *)
(***************************************************************************)
\* the registry template that inject selected
SelectedRegistryTemplate ==
    IF mode = "point" THEN TemplateNamed(PointRegistry, selected_template.name)
    ELSE TemplateNamed(ALL_COUPLED_TEMPLATES, selected_template.name)

\* the fragment text of a template that a payload is made from
FragmentText(template, component) ==
    CASE component = "state" -> template.state
      [] component = "vulnerable_code" -> template.code
      [] component = "setter" -> IF TruthyText(template.setter_condition)
                                 THEN template.setter_condition ELSE template.setter
      [] component = "executor" -> template.executor

\* does the line start with the indentation string and nothing more of white space
StartsWithExactly(line, indentation) ==
    /\ startswith(line, indentation)
    /\ Len(line) > Len(indentation) => line[Len(indentation) + 1] \notin {" ", "\t"}

\* A payload is a line break, the indentation and the fragment: line k of the
\* fragment text is line k + 1 of the payload.  Every line of the fragment
\* text that starts with {indent} starts with the indentation in the payload.
IndentReplaced(template_text, generated, indentation) ==
    LET template_lines == split(template_text, "\n")
        generated_lines == split(generated, "\n")
    IN \A k \in 1..Len(template_lines) :
          startswith(template_lines[k], Placeholder("indent")) =>
              /\ k + 1 <= Len(generated_lines)
              /\ StartsWithExactly(generated_lines[k + 1], indentation)

PayloadsBuilt ==
    /\ mode \in {"point", "coupled"}
    /\ selected_template # NoTemplate
    /\ payloads # <<>>

(***************************************************************************)
(* C22. Every {indent} placeholder inside a fragment is replaced by the    *)
(* indentation string detected at that fragment's insertion point, in      *)
(* point mode (state and code fragments) and in coupled mode (state,       *)
(* setter and executor fragments) alike.                                   *)
(***************************************************************************)
C22_IndentDetected ==
    PayloadsBuilt =>
        \A i \in 1..Len(payloads) :
            IndentReplaced(FragmentText(SelectedRegistryTemplate, payloads[i].component_name),
                           payloads[i].content,
                           detect_indentation(content, payloads[i].offset))

\* the same in point mode only
PointIndentDetected == mode = "point" => C22_IndentDetected

\* a point payload of several lines in a file indented with tabs
PointIndentCase ==
    /\ PayloadsBuilt /\ mode = "point"
    /\ \E i \in 1..Len(payloads) :
          /\ detect_indentation(content, payloads[i].offset) = <<"\t", "\t">>
          /\ Contains(FragmentText(SelectedRegistryTemplate, payloads[i].component_name),
                      Placeholder("indent"))

(***************************************************************************)
(* Properties of detect_indentation (SpecIndent).                          *)
(***************************************************************************)
\* the lines that follow the line holding the offset: the text after the
\* first line break at or after it, without the empty piece after the last
LinesAfter(buf, offset) ==
    LET rest == SliceFrom(buf, SkipToNewline(buf, offset) + 1)
        lines == split(rest, "\n")
    IN IF rest = <<>> THEN <<>>
       ELSE IF lines[Len(lines)] = <<>> THEN SubSeq(lines, 1, Len(lines) - 1) ELSE lines

OPENS == <<"/", "*">>
CLOSES == <<"*", "/">>

\* does the line end inside a comment of several lines, given that it starts
\* inside one or not: the last of its markers decides
EndsInComment(line, inside) ==
    LET opens == {i \in 1..Len(line) : IsPrefixAt(line, OPENS, i)}
        closes == {i \in 1..Len(line) : IsPrefixAt(line, CLOSES, i)}
    IN IF opens \cup closes = {} THEN inside
       ELSE LET last == CHOOSE i \in opens \cup closes : \A j \in opens \cup closes : j <= i
            IN last \in opens

\* a genuine code line: not inside a comment, not blank and not a comment
\* (a line that starts with * or ends a comment is a line of a comment of
\* several lines)
IsCodeLine(line, inside) ==
    /\ ~inside
    /\ BytesLStrip(line) # <<>>
    /\ ~startswith(BytesLStrip(line), <<"/", "/">>)
    /\ ~startswith(BytesLStrip(line), OPENS)
    /\ ~startswith(BytesLStrip(line), <<"*">>)
    /\ ~(Contains(line, CLOSES) /\ ~Contains(line, OPENS))

\* the leading white space of the first genuine code line, the default when
\* there is none
RECURSIVE FirstCodeIndent(_, _)
FirstCodeIndent(lines, inside) ==
    IF lines = <<>> THEN DefaultDetected
    ELSE IF IsCodeLine(Head(lines), inside) THEN LeadingIndent(Head(lines))
    ELSE FirstCodeIndent(Tail(lines), EndsInComment(Head(lines), inside))

(***************************************************************************)
(* C23. detect_indentation(content, offset) skips the rest of the line     *)
(* holding the offset, then blank lines, single-line comments and the      *)
(* lines of comments of several lines, and returns the leading white space *)
(* of the first genuine code line that follows; it returns the default     *)
(* only if there is no such line before the end of the buffer.             *)
(***************************************************************************)
C23_FirstCodeLineIndent ==
    (mode = "indent" /\ pc = "returned") =>
        result = FirstCodeIndent(LinesAfter(content, args.offset), FALSE)

\* the same for buffers without the unindented code line
NoUnindentedCode == \A i \in 1..Len(content) : ~IsPrefixAt(content, <<"z">>, i)

FirstCodeLineWhenIndented == NoUnindentedCode => C23_FirstCodeLineIndent

\* the same for buffers whose code lines are all indented and carry no comment
IndentedCodeOnly ==
    \A i \in 1..Len(content) :
        /\ ~IsPrefixAt(content, <<"z">>, i)
        /\ ~IsPrefixAt(content, <<"v">>, i)

FirstIndentedCodeLine == IndentedCodeOnly => C23_FirstCodeLineIndent

(***************************************************************************)
(* C24. Every location returned by single-function discovery               *)
(* (PointInjector.find_locations, for the reentrancy class and for every   *)
(* other class) refers to a function that is externally callable           *)
(* (visibility public or external) and state-modifying (mutability not     *)
(* view or pure).                                                          *)
(***************************************************************************)
C24_CallableAndStateModifying ==
    \A n \in 1..Len(found) :
        found[n].routine \in {"PointInjector.find_locations(reentrancy)",
                              "PointInjector.find_locations(tx_origin)"} =>
            \A k \in 1..Len(found[n].locations) :
                /\ found[n].locations[k].function.visibility \in {"public", "external"}
                /\ found[n].locations[k].function.state_mutability \notin {"view", "pure"}

\* the same for the reentrancy class alone
ReentrancyCallableAndStateModifying ==
    \A n \in 1..Len(found) :
        found[n].routine = "PointInjector.find_locations(reentrancy)" =>
            \A k \in 1..Len(found[n].locations) :
                /\ found[n].locations[k].function.visibility \in {"public", "external"}
                /\ found[n].locations[k].function.state_mutability \notin {"view", "pure"}

\* every location of another class is externally callable
OtherClassCallable ==
    \A n \in 1..Len(found) :
        found[n].routine = "PointInjector.find_locations(tx_origin)" =>
            \A k \in 1..Len(found[n].locations) :
                found[n].locations[k].function.visibility \in {"public", "external"}

(***************************************************************************)
(* Properties of the prerequisite tests (SpecAccept).                      *)
(***************************************************************************)
\* a template that declares no prerequisite flag
DeclaresNoPrerequisite(template) ==
    /\ ~template.needs_addr_param
    /\ ~template.needs_uint_param
    /\ ~template.needs_state_modifying
    /\ ~template.requires_payable_executor
    /\ ~template.needs_payable_setter
    /\ ~template.setter_needs_args

(***************************************************************************)
(* C25. A template that declares no prerequisite flag is accepted for      *)
(* every discovered location: in point mode check_template_requirements    *)
(* returns True for every location that discovery returns, and in coupled  *)
(* mode _filter_by_template keeps the pair for every discovered set.       *)
(***************************************************************************)
C25_NoPrerequisiteAccepted ==
    (pc = "checked" /\ DeclaresNoPrerequisite(selected_template)) =>
        \A i \in 1..Len(found[1].locations) : found[1].accepted[i]

\* the same in point mode at the locations of state-modifying functions
PointAcceptedWhenStateModifying ==
    (pc = "checked" /\ mode = "point accept" /\ DeclaresNoPrerequisite(selected_template)) =>
        \A i \in 1..Len(found[1].locations) :
            found[1].locations[i].is_state_modifying => found[1].accepted[i]

\* the same in coupled mode for the templates without the kind addr
CoupledAcceptedWithoutAddr ==
    (/\ pc = "checked" /\ mode = "coupled accept"
     /\ DeclaresNoPrerequisite(selected_template)
     /\ "addr" \notin Range(selected_template.var_types)) =>
        \A i \in 1..Len(found[1].locations) : found[1].accepted[i]

\* a coupled template without a flag turned down for a discovered set
CoupledTurnedDown ==
    /\ pc = "checked" /\ mode = "coupled accept"
    /\ DeclaresNoPrerequisite(selected_template)
    /\ \E i \in 1..Len(found[1].locations) : ~found[1].accepted[i]

(***************************************************************************)
(* C26. Comparison-operator prefixes are stripped before comparing: for    *)
(* every version v of three components and every prefix among ^, >=, >, <  *)
(* and <=, is_version_compatible(prefix + v, min, max) equals              *)
(* is_version_compatible(v, min, max).                                     *)
(***************************************************************************)
C26_PrefixStripped ==
    (mode = "prefix" /\ pc = "done") => found[1].prefixed = found[1].plain

\* the same for the prefixes other than <=
PrefixStrippedButLE ==
    (mode = "prefix" /\ pc = "done" /\ args.prefix # <<"<", "=">>) =>
        found[1].prefixed = found[1].plain

\* with <= the first component is lost
LEKeepsEqualsSign ==
    (mode = "prefix" /\ args.prefix = <<"<", "=">>) =>
        parse_version(solidity_version) = Tail(parse_version(args.version))

(***************************************************************************)
(* Properties of FunctionInfo.from_ast_node (SpecFunctions).               *)
(***************************************************************************)
\* the conditions under which a node is a Function
IsFunctionNode(node) ==
    /\ node.name = "FunctionDefinition"
    /\ ~("isConstructor" \in DOMAIN node.attributes /\ node.attributes.isConstructor)
    /\ "name" \in DOMAIN node.attributes /\ node.attributes.name # ""
    /\ \E k \in 1..Len(node.children) : node.children[k].name = "Block"

\* the names of the parameters of the first ParameterList child
FirstListNames(node) ==
    LET first == CHOOSE k \in 1..Len(node.children) :
                     /\ node.children[k].name = "ParameterList"
                     /\ \A j \in 1..(k - 1) : node.children[j].name # "ParameterList"
    IN [i \in 1..Len(node.children[first].children) |->
           node.children[first].children[i].attributes.name]

\* the places of the children that are Functions, in child order
RECURSIVE FunctionPlaces(_, _)
FunctionPlaces(children, k) ==
    IF k > Len(children) THEN <<>>
    ELSE (IF IsFunctionNode(children[k]) THEN <<k>> ELSE <<>>)
         \o FunctionPlaces(children, k + 1)

(***************************************************************************)
(* C27. FunctionInfo.from_ast_node is a total validating constructor: it   *)
(* returns a Function exactly when the node's kind is FunctionDefinition,  *)
(* it is not a constructor, its name is not empty and it has a Block       *)
(* child, with the parameters of the first ParameterList child only, and   *)
(* absent in every other case; find_functions_in_contract returns exactly  *)
(* the results that are not absent for the direct children, in child order.*)
(***************************************************************************)
C27_ValidatingConstructor ==
    (mode = "functions" /\ pc = "done") =>
        LET children == ast.children
            places == FunctionPlaces(children, 1)
        IN /\ \A i \in 1..Len(children) :
                 /\ (found[1].infos[i] # NoFunction) <=> IsFunctionNode(children[i])
                 /\ IsFunctionNode(children[i]) =>
                       /\ found[1].infos[i].id = children[i].id
                       /\ found[1].infos[i].name = children[i].attributes.name
                       /\ [k \in 1..Len(found[1].infos[i].params) |->
                              found[1].infos[i].params[k].name] = FirstListNames(children[i])
           /\ found[1].functions = [k \in 1..Len(places) |-> found[1].infos[places[k]]]

\* a constructor between two functions, one of them with a parameter in its
\* first list and another in its second
C27_Witness ==
    /\ mode = "functions" /\ pc = "done"
    /\ Len(ast.children) = 2
    /\ ast.children[1].attributes.name = "A"
    /\ ast.children[2].attributes.name = "f"
    /\ found[1].infos[1] = NoFunction
    /\ Len(found[1].functions) = 1
    /\ Len(found[1].functions[1].params) = 1

(***************************************************************************)
(* The vulnerability_type of the provenance record (Spec).                 *)
(***************************************************************************)
CrossFunction == <<"c", "r", "o", "s", "s", "-", "f", "u", "n", "c", "t", "i", "o", "n">>

\* text is the tag written in lower case
LowerCaseOf(text, tag) ==
    /\ Len(text) = Len(tag)
    /\ \A i \in 1..Len(text) :
          /\ ~(\E k \in 1..Len(UpperLetters) : UpperLetters[k] = text[i])
          /\ UpperChar(text[i]) = tag[i]

\* an inject call has built its record for a selected template
RecordBuilt ==
    /\ pc \in {"apply", "applied", "written", "done"}
    /\ selected_template # NoTemplate
    /\ metadata # NoMetadata

PointTypeRecorded ==
    /\ mode = "point" /\ pc = "done"
    /\ metadata_file # NoMetadata
    /\ selected_template # NoTemplate
    /\ metadata_file.vulnerability_type = lower(selected_template.vuln_type)

(***************************************************************************)
(* Payloads that share an offset (SpecApply).                              *)
(***************************************************************************)
\* the region recorded for the i-th payload of the input list
RegionOfPayload(i) ==
    metadata.injected_regions[
        CHOOSE k \in 1..Len(metadata.injected_regions) :
            metadata.injected_regions[k].component = payloads[i].component_name]

(***************************************************************************)
(* C29. Offset accounting stays exact when offsets collide: if two or more *)
(* payloads share an offset in 0..L, _apply_payloads still returns a       *)
(* buffer of length L plus the sum of the payload lengths, every recorded  *)
(* [start_byte, end_byte) slice equals its payload's bytes, the recorded   *)
(* regions are pairwise disjoint, and among payloads of equal offsets the  *)
(* one that comes later in the input list is placed earlier in the output. *)
(***************************************************************************)
C29_CollidingOffsetsExact ==
    (pc = "applied" /\ metadata # NoMetadata /\ ~DistinctOffsets(payloads)) =>
        /\ Len(modified_content) = Len(content) + SumContentLen(payloads)
        /\ Len(metadata.injected_regions) = Len(payloads)
        /\ \A i \in 1..Len(payloads) :
              /\ Cardinality(RegionsOf(metadata, payloads[i].component_name)) = 1
              /\ RegionOfPayload(i).end_byte - RegionOfPayload(i).start_byte
                    = Len(payloads[i].content)
              /\ RegionBytes(modified_content, RegionOfPayload(i)) = payloads[i].content
        /\ \A i, j \in 1..Len(payloads) :
              i # j => \/ RegionOfPayload(i).end_byte <= RegionOfPayload(j).start_byte
                       \/ RegionOfPayload(j).end_byte <= RegionOfPayload(i).start_byte
        /\ \A i, j \in 1..Len(payloads) :
              (i < j /\ payloads[i].offset = payloads[j].offset) =>
                  RegionOfPayload(j).end_byte <= RegionOfPayload(i).start_byte

\* two payloads at one offset inside the buffer and a third one below them:
\* the second of the two lies right before the first in the output
C29_Witness ==
    /\ pc = "applied" /\ metadata # NoMetadata
    /\ Len(payloads) = 3 /\ Len(content) = 2
    /\ payloads[1].offset = 1 /\ payloads[2].offset = 1 /\ payloads[3].offset = 0
    /\ payloads[1].content = <<"x">>
    /\ payloads[2].content = <<"y", "z">>
    /\ payloads[3].content = <<"x">>
    /\ RegionOfPayload(2).start_byte = 2 /\ RegionOfPayload(2).end_byte = 4
    /\ RegionOfPayload(1).start_byte = 4 /\ RegionOfPayload(1).end_byte = 5
    /\ Slice(modified_content, 2, 5) = <<"y", "z", "x">>

(***************************************************************************)
(* Where a reentrancy-class point template is applied (Spec).              *)
(***************************************************************************)
ReentrancyClass == <<"R", "E", "E", "N", "T", "R", "A", "N", "C", "Y">>

\* the function of the selected location holds an assignment to a state variable
SelectedFunctionAssignsState ==
    LET func_node == find_node_by_id(ast, selected_location.function.id)
    IN /\ func_node # NoNode
       /\ find_state_variable_assignments(func_node, find_state_variables(ast)) # <<>>

\* a point injection has selected a template of the reentrancy class
ReentrancyTemplateApplied ==
    /\ mode = "point"
    /\ pc \in {"apply", "applied", "written", "done"}
    /\ selected_template # NoTemplate
    /\ selected_template.vuln_type = ReentrancyClass

(***************************************************************************)
(* C30. A reentrancy-class point template is applied only at a function    *)
(* for which the reentrancy strategy found an assignment to a state        *)
(* variable: whether the vulnerability type is given or omitted and        *)
(* auto-selected from POINT_VULN_TYPES, whenever the applied template's    *)
(* class is REENTRANCY the selected function holds at least one assignment *)
(* whose left-hand side resolves to a state variable.                      *)
(***************************************************************************)
C30_ReentrancyOnlyAtStateAssignment ==
    ReentrancyTemplateApplied => SelectedFunctionAssignsState

\* the same when the vulnerability type is given in the call
ReentrancyGivenAtStateAssignment ==
    (ReentrancyTemplateApplied /\ TruthyText(args.vuln_type)) =>
        /\ selected_location.has_assignment
        /\ SelectedFunctionAssignsState

\* a reentrancy template applied on request
ReentrancyGivenApplied ==
    ReentrancyTemplateApplied /\ TruthyText(args.vuln_type) /\ pc = "done"

\* only the reentrancy class is applied where no state variable is assigned
\* by way of the omitted type
OmittedTypeOnly ==
    (ReentrancyTemplateApplied /\ ~SelectedFunctionAssignsState) => ~TruthyText(args.vuln_type)

====
